---- MODULE Spec2Model ----
(***************************************************************************)
(* A model of the CIMC Redfish integration: the synchronous Redfish        *)
(* client (coordinator.py), the polling set-up around it (__init__.py)     *)
(* the set-up probe of the configuration flow (config_flow.py), the       *)
(* sensor platform with its entities (sensor.py, entities/) and the        *)
(* display names (helpers.py).                                             *)
(*                                                                         *)
(*   Spec          set-up, polls (fetch_all step by step), unload          *)
(*   SpecFlow      the configuration flow and its probe                    *)
(*   SpecNum       one call of _num                                        *)
(*   SpecItem      one array entry through the loop body of a fetch        *)
(*   SpecPower     one call of fetch_power                                 *)
(*   SpecLink      one array entry through _fetch_if_link and the loop     *)
(*   SpecName      one call of normalize_name                              *)
(*   SpecEntities  platform set-up from the first snapshot, later polls    *)
(*                                                                         *)
(* Python values are records [t, n, e, s, h]:                              *)
(*   t = "none"                       None / JSON null                     *)
(*   t = "str",   s = characters      a string, one character per element  *)
(*   t = "int",   n = value           an integer                           *)
(*   t = "bool",  n = 0 or 1          False / True                         *)
(*   t = "float", n = mantissa, e = decimals    the finite float n / 10^e  *)
(*   t = "list"                       a JSON array used as a scalar        *)
(*   t = "dict",  s = State, h = Health         a Status object            *)
(* Dictionaries the code indexes by key are functions whose DOMAIN is the  *)
(* set of keys present.                                                    *)
(***************************************************************************)
EXTENDS Integers, Sequences, FiniteSets, TLC

VARIABLES
    arg,            \* _num: the value passed in
    ret,            \* _num: what the call did: pending, returned(val), raised
    session,        \* client._session is not None
    chassis_path,   \* client._chassis_path (a Python value)
    pc,             \* where the poll is: idle, fans, power, temps, returned
    out,            \* fetch_all's local `out`
    data,           \* coordinator.data, the cached snapshot
    pollExc,        \* the exception the last finished fetch_all raised, or NoExc
    fansOutcome,    \* this poll: none / ok / raised
    powerOutcome,   \* this poll: none / ok / raised
    tempsOutcome,   \* this poll: none / ok / raised
    requested,      \* the GETs the last client step issued, in order
    discovered,     \* a _pick_chassis call has returned (history)
    lastReturned,   \* what the last fetch_all that returned returned (history)
    fansFault,      \* this poll: the request of fetch_fans that failed (history)
    replacedPsus,   \* a snapshot holding psus has been replaced (history)
    loaded,         \* the config entry is set up (its first refresh succeeded)
    interval,       \* coordinator.update_interval, in seconds
    flow,           \* configuration flow: none, form, aborted, created
    flowHost,       \* the host of the last submission (the flow's unique id)
    configured,     \* hosts that have a config entry
    formError,      \* errors["base"] of the form shown, or NoError
    probeRuns,      \* fetch_fans calls made by the last submission
    probeExc,       \* what the probe's fetch_fans raised, or NoExc
    probeRes,       \* what the probe's fetch_fans returned, or NoData
    probeAnswer,    \* what the controller answered the probe (history)
    submitted,      \* the flow has handled a submission of the form
    sensorKind,     \* one array entry being normalised: fan, temp or rail
    sensorItem,     \* the entry as the controller sent it
    sensorRec,      \* the record made of it: pending, or [exc, rec]
    powerAnswer,    \* fetch_power alone: the controller's answers
    powerResult,    \* fetch_power alone: pending, or what the call gave back
    linkKind,       \* one array entry through _fetch_if_link: fans or temps
    linkEntry,      \* the entry as the Thermal resource lists it
    linkAnswer,     \* the controller's answer to a follow-up GET
    linkOut,        \* pending, or the GETs issued and the record made
    nameRaw,        \* normalize_name: the argument
    nameOut,        \* normalize_name: pending, or the value returned
    entities,       \* the entities the sensor platform has added
    firstData       \* the snapshot the platform was set up from (history)

numVars  == <<arg, ret>>
pollVars == <<session, chassis_path, pc, out, data, pollExc, fansOutcome,
              powerOutcome, tempsOutcome, requested, discovered, lastReturned,
              fansFault, replacedPsus, loaded, interval>>
flowVars == <<flow, flowHost, configured, formError, probeRuns, probeExc, probeRes,
              probeAnswer, submitted>>
itemVars == <<sensorKind, sensorItem, sensorRec>>
unitVars == <<powerAnswer, powerResult, linkKind, linkEntry, linkAnswer, linkOut,
              nameRaw, nameOut, entities, firstData>>
vars     == <<numVars, pollVars, flowVars, itemVars, unitVars>>

---------------------------------------------------------------------------
(* Python values *)

None        == [t |-> "none",  n |-> 0, e |-> 0, s |-> <<>>, h |-> <<>>]
Str(cs)     == [t |-> "str",   n |-> 0, e |-> 0, s |-> cs,   h |-> <<>>]
IntV(i)      == [t |-> "int",   n |-> i, e |-> 0, s |-> <<>>, h |-> <<>>]
Bool(b)     == [t |-> "bool",  n |-> IF b THEN 1 ELSE 0, e |-> 0, s |-> <<>>, h |-> <<>>]
List        == [t |-> "list",  n |-> 0, e |-> 0, s |-> <<>>, h |-> <<>>]
StatusObj(state, health) ==
    [t |-> "dict", n |-> 0, e |-> 0, s |-> state, h |-> health]

RECURSIVE Pow10(_)
Pow10(k) == IF k = 0 THEN 1 ELSE 10 * Pow10(k - 1)

\* A float with its mantissa reduced: 1.50 and 1.5 are the same value.
RECURSIVE Float(_, _)
Float(m, d) ==
    IF d > 0 /\ m % 10 = 0
    THEN Float(m \div 10, d - 1)
    ELSE [t |-> "float", n |-> m, e |-> d, s |-> <<>>, h |-> <<>>]

\* Python's ==, on the values of the model: numbers compare by value
\* (1 == 1.0 == True), everything else by type and content.
IsNumber(v) == v.t \in {"int", "bool", "float"}
PyEq(a, b) ==
    IF IsNumber(a) /\ IsNumber(b)
    THEN a.n * Pow10(b.e) = b.n * Pow10(a.e)
    ELSE a = b

\* bool(v)
Truthy(v) ==
    CASE v.t = "none" -> FALSE
      [] v.t = "str"  -> v.s # <<>>
      [] IsNumber(v)  -> v.n # 0
      [] v.t = "list" -> FALSE          \* the model's only list is []
      [] OTHER        -> TRUE

\* a or b
Or(a, b) == IF Truthy(a) THEN a ELSE b

\* d.get(k)
Get(d, k) == IF k \in DOMAIN d THEN d[k] ELSE None

---------------------------------------------------------------------------
(* int(v) and float(v) *)

Digits == {"0", "1", "2", "3", "4", "5", "6", "7", "8", "9"}
DigitVal(c) ==
    CASE c = "0" -> 0 [] c = "1" -> 1 [] c = "2" -> 2 [] c = "3" -> 3
      [] c = "4" -> 4 [] c = "5" -> 5 [] c = "6" -> 6 [] c = "7" -> 7
      [] c = "8" -> 8 [] c = "9" -> 9

RECURSIVE LStrip(_)
LStrip(cs) == IF cs # <<>> /\ Head(cs) = " " THEN LStrip(Tail(cs)) ELSE cs
RECURSIVE RStrip(_)
RStrip(cs) ==
    IF cs # <<>> /\ cs[Len(cs)] = " "
    THEN RStrip(SubSeq(cs, 1, Len(cs) - 1)) ELSE cs
Strip(cs) == RStrip(LStrip(cs))

HasSign(cs)  == cs # <<>> /\ Head(cs) \in {"-", "+"}
Unsigned(cs) == IF HasSign(cs) THEN Tail(cs) ELSE cs
SignOf(cs)   == IF cs # <<>> /\ Head(cs) = "-" THEN -1 ELSE 1

AllDigits(cs) == \A i \in 1..Len(cs) : cs[i] \in Digits
RECURSIVE DigitsVal(_)
DigitsVal(cs) ==
    IF cs = <<>> THEN 0
    ELSE 10 * DigitsVal(SubSeq(cs, 1, Len(cs) - 1)) + DigitVal(cs[Len(cs)])

\* The text int() accepts: blanks, an optional sign, one or more digits.
IntText(cs) ==
    LET u == Unsigned(Strip(cs)) IN u # <<>> /\ AllDigits(u)
IntOfText(cs) ==
    LET b == Strip(cs) IN SignOf(b) * DigitsVal(Unsigned(b))

\* The text float() accepts, over the characters of the model: blanks, an
\* optional sign, digits with at most one point and at least one digit.
Dots(cs) == {i \in 1..Len(cs) : cs[i] = "."}
NoDots(cs) == SelectSeq(cs, LAMBDA c : c # ".")
FloatBody(u) ==
    /\ Cardinality(Dots(u)) <= 1
    /\ NoDots(u) # <<>>
    /\ AllDigits(NoDots(u))
FloatText(cs) == FloatBody(Unsigned(Strip(cs)))
Decimals(u) == IF Dots(u) = {} THEN 0 ELSE Len(u) - (CHOOSE i \in Dots(u) : TRUE)
FloatOfBody(sign, u) == Float(sign * DigitsVal(NoDots(u)), Decimals(u))
FloatOfStripped(b) == FloatOfBody(SignOf(b), Unsigned(b))
FloatOfText(cs) == FloatOfStripped(Strip(cs))

\* An exception in flight, by the name of its class.
Raise(cls) == [t |-> "raised", n |-> 0, e |-> 0, s |-> <<cls>>, h |-> <<>>]
IsRaised(v) == v.t = "raised"
ExcName(v)  == v.s[1]

\* The floats that are no finite number: json.loads gives them for the
\* tokens Infinity, -Infinity and NaN and for a number too large for a double.
Inf    == [t |-> "inf", n |-> 1,  e |-> 0, s |-> <<>>, h |-> <<>>]
NegInf == [t |-> "inf", n |-> -1, e |-> 0, s |-> <<>>, h |-> <<>>]
NaN    == [t |-> "nan", n |-> 0,  e |-> 0, s |-> <<>>, h |-> <<>>]
IsFloat(v) == v.t \in {"float", "inf", "nan"}

\* int(v).  A float is truncated towards zero.
Abs(i) == IF i < 0 THEN -i ELSE i
Trunc(v) == IF v.n < 0 THEN -(Abs(v.n) \div Pow10(v.e)) ELSE v.n \div Pow10(v.e)
PyInt(v) ==
    CASE v.t \in {"int", "bool"} -> IntV(v.n)
      [] v.t = "float"           -> IntV(Trunc(v))
      [] v.t = "inf"             -> Raise("OverflowError")
      [] v.t = "nan"             -> Raise("ValueError")
      [] v.t = "str"             -> IF IntText(v.s) THEN IntV(IntOfText(v.s))
                                    ELSE Raise("ValueError")
      [] OTHER                   -> Raise("TypeError")
\* float(v)
PyFloat(v) ==
    CASE v.t \in {"int", "bool"} -> Float(v.n, 0)
      [] IsFloat(v)              -> v
      [] v.t = "str"             -> IF FloatText(v.s) THEN FloatOfText(v.s)
                                    ELSE Raise("ValueError")
      [] OTHER                   -> Raise("TypeError")

NA == Str(<<"N", "/", "A">>)

\* except (ValueError, TypeError)
NumCatches(x) == ExcName(x) \in {"ValueError", "TypeError"}

\* _num(v): the skipped values, then int(), then float(), else None; an
\* exception the handlers do not name propagates.
NumSkipped(v) == PyEq(v, None) \/ PyEq(v, Str(<<>>)) \/ PyEq(v, NA)
\* the inner try: return float(v), None on the exceptions caught
NumSecond(f) == IF ~IsRaised(f) THEN f ELSE IF NumCatches(f) THEN None ELSE f
\* the outer try: return int(v), the inner try on the exceptions caught
NumFirst(i, f) ==
    IF ~IsRaised(i) THEN i ELSE IF NumCatches(i) THEN NumSecond(f) ELSE i
_num(v) == IF NumSkipped(v) THEN None ELSE NumFirst(PyInt(v), PyFloat(v))

Pending     == [status |-> "pending",  val |-> None]
Returned(v) == [status |-> "returned", val |-> v]
Threw(x)    == [status |-> "raised",   val |-> x]

\* One call of _num from a caller that handles nothing.
CallResult(v) == IF IsRaised(v) THEN Threw(v) ELSE Returned(v)

---------------------------------------------------------------------------
(* Exceptions of the client, and what one HTTP GET can do *)

Exc(cls, code) == [cls |-> cls, code |-> code]
NoExc          == Exc("none", 0)

\* The classes an exception is an instance of (requests.exceptions and the
\* built-ins), as the except clauses test them.
Bases(cls) ==
    CASE cls = "HTTPError"       -> {"HTTPError", "RequestException", "Exception"}
      [] cls = "ConnectionError" -> {"ConnectionError", "RequestException", "Exception"}
      [] cls = "SSLError"        -> {"SSLError", "ConnectionError", "RequestException",
                                     "Exception"}
      [] cls = "ConnectTimeout"  -> {"ConnectTimeout", "ConnectionError", "Timeout",
                                     "RequestException", "Exception"}
      [] cls = "ReadTimeout"     -> {"ReadTimeout", "Timeout", "RequestException",
                                     "Exception"}
      [] cls = "JSONDecodeError" -> {"JSONDecodeError", "RequestException", "ValueError",
                                     "Exception"}
      [] OTHER                   -> {cls, "Exception"}
IsA(x, cls) == x # NoExc /\ cls \in Bases(x.cls)

\* A JSON array or null, as the value of a key.
JArr(items) == [null |-> FALSE, items |-> items]
JNull       == [null |-> TRUE,  items |-> <<>>]
\* A JSON body or array element: an object with its keys, or something else.
Obj(d)  == [isDict |-> TRUE,  d |-> d]
NotObj  == [isDict |-> FALSE, d |-> <<>>]
NoKeys  == [k \in {} |-> None]

\* s.get(...); r.raise_for_status(); r.json()
Fails(x)   == [exc |-> x,     body |-> NotObj]
Json(body) == [exc |-> NoExc, body |-> body]

\* body.get(key) or [] , for a key that holds an array
ArrayOf(body, key) ==
    IF key \in DOMAIN body.d /\ ~body.d[key].null THEN body.d[key].items ELSE <<>>

\* str(v), for the values a member id can be
RECURSIVE NatText(_)
NatText(k) ==
    LET c == CHOOSE x \in Digits : DigitVal(x) = k % 10
    IN IF k < 10 THEN <<c>> ELSE Append(NatText(k \div 10), c)
PyStr(v) ==
    CASE v.t = "str"  -> v.s
      [] v.t = "int"  -> IF v.n < 0 THEN <<"-">> \o NatText(-v.n) ELSE NatText(v.n)
      [] v.t = "none" -> <<"N", "o", "n", "e">>
      [] v.t = "bool" -> IF v.n = 1 THEN <<"T", "r", "u", "e">>
                         ELSE <<"F", "a", "l", "s", "e">>
      [] v.t = "list" -> <<"[", "]">>
      [] OTHER        -> <<"?">>

\* int(mid) if mid is not None else None, the raw value kept on
\* TypeError and ValueError
MemberIdFrom(mid, i) ==
    IF ~IsRaised(i) THEN i ELSE IF NumCatches(i) THEN mid ELSE i
MemberId(mid) == IF mid = None THEN None ELSE MemberIdFrom(mid, PyInt(mid))

---------------------------------------------------------------------------
(* CimcRedfishClient *)

\* What a client call gives back: the exception it raised or its value, the
\* chassis path the client caches afterwards, and the GETs it issued.
Result(x, v, cached, reqs) == [exc |-> x, value |-> v, cached |-> cached, reqs |-> reqs]

\* _pick_chassis, on the response to GET /redfish/v1/Chassis
PickFirst(members) ==
    IF members = <<>>
    THEN Result(Exc("RuntimeError", 0), None, None, <<"Chassis">>)
    ELSE IF ~members[1].isDict
    THEN Result(Exc("TypeError", 0), None, None, <<"Chassis">>)
    ELSE IF "@odata.id" \notin DOMAIN members[1].d
    THEN Result(Exc("KeyError", 0), None, None, <<"Chassis">>)
    ELSE Result(NoExc, members[1].d["@odata.id"], None, <<"Chassis">>)
_pick_chassis(resp) ==
    IF resp.exc # NoExc THEN Result(resp.exc, None, None, <<"Chassis">>)
    ELSE IF ~resp.body.isDict
    THEN Result(Exc("AttributeError", 0), None, None, <<"Chassis">>)
    ELSE PickFirst(ArrayOf(resp.body, "Members"))

\* _ensure_chassis: the cached path when it is truthy, else a discovery
\* whose result is cached.
Discovery(cp, picked) ==
    IF picked.exc # NoExc THEN Result(picked.exc, None, cp, picked.reqs)
    ELSE Result(NoExc, picked.value, picked.value, picked.reqs)
_ensure_chassis(cp, resp) ==
    IF Truthy(cp) THEN Result(NoExc, cp, cp, <<>>)
    ELSE Discovery(cp, _pick_chassis(resp))

\* _fetch_if_link: [exc, item, reqs].  linkResp answers the follow-up GET.
HasReading(item) ==
    item.isDict /\ DOMAIN item.d \cap {"Reading", "ReadingRPM", "Status"} # {}
IsLink(item) ==
    item.isDict /\ ~HasReading(item) /\ Truthy(Get(item.d, "@odata.id"))
\* (a variant that keeps the bare link when its follow-up GET fails)
_fetch_if_linkLenient(item, linkResp) ==
    IF IsLink(item) /\ linkResp.exc = NoExc
    THEN [exc |-> NoExc, item |-> linkResp.body, reqs |-> <<"Link">>]
    ELSE [exc |-> NoExc, item |-> IF item.isDict THEN item ELSE Obj(NoKeys),
          reqs |-> IF IsLink(item) THEN <<"Link">> ELSE <<>>]
_fetch_if_link(item, linkResp) ==
    IF HasReading(item) THEN [exc |-> NoExc, item |-> item, reqs |-> <<>>]
    ELSE IF IsLink(item)
    THEN IF linkResp.exc # NoExc
         THEN [exc |-> linkResp.exc, item |-> NotObj, reqs |-> <<"Link">>]
         ELSE [exc |-> NoExc, item |-> linkResp.body, reqs |-> <<"Link">>]
    ELSE [exc |-> NoExc, item |-> IF item.isDict THEN item ELSE Obj(NoKeys),
          reqs |-> <<>>]

\* [self._fetch_if_link(it) for it in raw]: the first failure ends it.
FirstOf(S) == CHOOSE i \in S : \A j \in S : i <= j
RECURSIVE Flatten(_)
Flatten(qs) == IF qs = <<>> THEN <<>> ELSE Head(qs) \o Flatten(Tail(qs))
Resolved(each, bad) ==
    IF bad = {}
    THEN [exc |-> NoExc, items |-> [i \in DOMAIN each |-> each[i].item],
          reqs |-> Flatten([i \in DOMAIN each |-> each[i].reqs])]
    ELSE [exc |-> each[FirstOf(bad)].exc, items |-> <<>>,
          reqs |-> Flatten([i \in 1..FirstOf(bad) |-> each[i].reqs])]
Failed(each) == {i \in DOMAIN each : each[i].exc # NoExc}
ResolveEach(each) == Resolved(each, Failed(each))
ResolveAll(raw, linkResps) ==
    ResolveEach([i \in 1..Len(raw) |-> _fetch_if_link(raw[i], linkResps[i])])

\* A record whose fields were computed by calls that may raise: the record,
\* or the exception of a field that raised.
RaisedIn(rec) == {k \in DOMAIN rec : IsRaised(rec[k])}
ExcOf(rec, bad) ==
    IF bad = {} THEN NoExc ELSE Exc(ExcName(rec[CHOOSE k \in bad : TRUE]), 0)
Computed(rec) == [exc |-> ExcOf(rec, RaisedIn(rec)), rec |-> rec]
NotADict == [exc |-> Exc("AttributeError", 0), rec |-> NoKeys]

\* status = x.get("Status") or {}; status.get(key)
StatusBad(d)    == Truthy(Get(d, "Status")) /\ Get(d, "Status").t # "dict"
StatusState(d)  == IF Truthy(Get(d, "Status")) THEN Str(Get(d, "Status").s) ELSE None
StatusHealth(d) == IF Truthy(Get(d, "Status")) THEN Str(Get(d, "Status").h) ELSE None

STR_Fan     == <<"F", "a", "n">>
STR_RPM     == <<"R", "P", "M">>
STR_Temp    == <<"T", "e", "m", "p", " ">>
STR_PSU     == <<"P", "S", "U", " ">>
STR_Cisco   == <<"C", "i", "s", "c", "o">>
STR_CSeries == <<"C", "-", "S", "e", "r", "i", "e", "s">>
STR_PowerSupply == <<"P", "o", "w", "e", "r", "S", "u", "p", "p", "l", "y">>

\* The loop body of fetch_fans: [exc, rec]
\* (a variant without the fallback to the raw value)
FanRpmNumOnly(rpm_val, rpm) == rpm
FanRpmFrom(rpm_val, rpm) == IF rpm = None THEN rpm_val ELSE rpm
FanRpmOf(rpm_val) == FanRpmFrom(rpm_val, _num(rpm_val))
FanRpm(d) == FanRpmOf(Or(Get(d, "Reading"), Get(d, "ReadingRPM")))
FanFields(d) ==
    [ name          |-> Or(Or(Get(d, "Name"), Get(d, "FanName")), Str(STR_Fan)),
      context       |-> Get(d, "PhysicalContext"),
      member_id     |-> MemberId(Get(d, "MemberID")),
      rpm           |-> FanRpm(d),
      units         |-> Or(Get(d, "ReadingUnits"),
                           IF Get(d, "ReadingRPM") # None
                           THEN Str(STR_RPM) ELSE Str(<<>>)),
      state         |-> StatusState(d),
      health        |-> StatusHealth(d),
      lower_noncrit |-> _num(Get(d, "LowerThresholdNonCritical")),
      lower_crit    |-> _num(Get(d, "LowerThresholdCritical")),
      upper_noncrit |-> _num(Get(d, "UpperThresholdNonCritical")),
      upper_crit    |-> _num(Get(d, "UpperThresholdCritical")),
      odata_id      |-> Get(d, "@odata.id") ]
FanRecord(item) ==
    IF ~item.isDict \/ StatusBad(item.d) THEN NotADict
    ELSE Computed(FanFields(item.d))

\* The loop body of fetch_temperatures: [exc, rec]
TempFields(d, mid) ==
    [ name          |-> Or(Get(d, "Name"), Str(STR_Temp \o PyStr(mid))),
      context       |-> Get(d, "PhysicalContext"),
      member_id     |-> mid,
      celsius       |-> _num(Get(d, "ReadingCelsius")),
      state         |-> StatusState(d),
      health        |-> StatusHealth(d),
      lower_noncrit |-> _num(Get(d, "LowerThresholdNonCritical")),
      lower_crit    |-> _num(Get(d, "LowerThresholdCritical")),
      upper_noncrit |-> _num(Get(d, "UpperThresholdNonCritical")),
      upper_crit    |-> _num(Get(d, "UpperThresholdCritical")),
      sensor_number |-> _num(Get(d, "SensorNumber")),
      odata_id      |-> Get(d, "@odata.id") ]
TempRecord(item) ==
    IF ~item.isDict \/ StatusBad(item.d) THEN NotADict
    ELSE Computed(TempFields(item.d, MemberId(Get(item.d, "MemberID"))))

\* for x in items: out.append(Record(x)) -- the first failure ends the loop
Mapped(each, bad) ==
    IF bad = {} THEN [exc |-> NoExc, recs |-> [i \in DOMAIN each |-> each[i].rec]]
    ELSE [exc |-> each[FirstOf(bad)].exc, recs |-> <<>>]
MapEach(each) == Mapped(each, Failed(each))
MapFans(items)  == MapEach([i \in 1..Len(items) |-> FanRecord(items[i])])
MapTemps(items) == MapEach([i \in 1..Len(items) |-> TempRecord(items[i])])

\* The device-identity step of fetch_fans: the chassis resource, with the
\* defaults on the exceptions its handler names.
DeviceCatches(x) ==
    \E c \in {"RequestException", "ValueError", "KeyError", "TypeError"} : IsA(x, c)
DeviceDefaults(host) ==
    [ host |-> host, manufacturer |-> Str(STR_Cisco), model |-> Str(STR_CSeries),
      serial |-> None, ident |-> host ]
DeviceOnError(host, x) ==
    IF DeviceCatches(x) THEN [exc |-> NoExc, device |-> DeviceDefaults(host)]
    ELSE [exc |-> x, device |-> DeviceDefaults(host)]
DeviceFrom(host, d) ==
    [ host         |-> host,
      manufacturer |-> Or(Get(d, "Manufacturer"), Str(STR_Cisco)),
      model        |-> Or(Get(d, "Model"), Str(STR_CSeries)),
      serial       |-> Get(d, "SerialNumber"),
      ident        |-> host ]
DeviceStep(host, resp) ==
    IF resp.exc # NoExc THEN DeviceOnError(host, resp.exc)
    ELSE IF ~resp.body.isDict THEN DeviceOnError(host, Exc("AttributeError", 0))
    ELSE [exc |-> NoExc, device |-> DeviceFrom(host, resp.body.d)]

\* fetch_fans.  r is the controller's answers: r.coll to the chassis
\* collection, r.thermal to Thermal, r.links[i] to the follow-up GET of the
\* i-th array entry, r.chassis to the chassis resource.
NoValue == [k \in {} |-> None]
FansReturn(ch, reqs, fans, dev) ==
    IF dev.exc # NoExc THEN Result(dev.exc, NoValue, ch.cached, reqs)
    ELSE Result(NoExc, [fans |-> fans.recs, device |-> dev.device], ch.cached, reqs)
FansDevice(host, r, ch, reqs, fans) ==
    IF fans.exc # NoExc THEN Result(fans.exc, NoValue, ch.cached, reqs)
    ELSE FansReturn(ch, Append(reqs, "ChassisResource"), fans, DeviceStep(host, r.chassis))
FansLoop(host, r, ch, objs) ==
    IF objs.exc # NoExc
    THEN Result(objs.exc, NoValue, ch.cached, (ch.reqs \o <<"Thermal">>) \o objs.reqs)
    ELSE FansDevice(host, r, ch, (ch.reqs \o <<"Thermal">>) \o objs.reqs,
                    MapFans(objs.items))
FansThermal(host, r, ch) ==
    IF ch.exc # NoExc THEN Result(ch.exc, NoValue, ch.cached, ch.reqs)
    ELSE IF r.thermal.exc # NoExc
    THEN Result(r.thermal.exc, NoValue, ch.cached, Append(ch.reqs, "Thermal"))
    ELSE IF ~r.thermal.body.isDict
    THEN Result(Exc("AttributeError", 0), NoValue, ch.cached, Append(ch.reqs, "Thermal"))
    ELSE FansLoop(host, r, ch, ResolveAll(ArrayOf(r.thermal.body, "Fans"), r.links))
fetch_fans(host, cp, r) == FansThermal(host, r, _ensure_chassis(cp, r.coll))

\* fetch_temperatures
TempsReturn(ch, reqs, temps) ==
    IF temps.exc # NoExc THEN Result(temps.exc, <<>>, ch.cached, reqs)
    ELSE Result(NoExc, temps.recs, ch.cached, reqs)
TempsLoop(ch, objs) ==
    IF objs.exc # NoExc
    THEN Result(objs.exc, <<>>, ch.cached, (ch.reqs \o <<"Thermal">>) \o objs.reqs)
    ELSE TempsReturn(ch, (ch.reqs \o <<"Thermal">>) \o objs.reqs,
                     MapTemps(objs.items))
TempsThermal(r, ch) ==
    IF ch.exc # NoExc THEN Result(ch.exc, <<>>, ch.cached, ch.reqs)
    ELSE IF r.thermal.exc # NoExc
    THEN Result(r.thermal.exc, <<>>, ch.cached, Append(ch.reqs, "Thermal"))
    ELSE IF ~r.thermal.body.isDict
    THEN Result(Exc("AttributeError", 0), <<>>, ch.cached, Append(ch.reqs, "Thermal"))
    ELSE TempsLoop(ch, ResolveAll(ArrayOf(r.thermal.body, "Temperatures"), r.links))
fetch_temperatures(cp, r) == TempsThermal(r, _ensure_chassis(cp, r.coll))

\* The loop body over Voltages in fetch_power: [exc, rec]
RailFields(d) ==
    [ member_id     |-> MemberId(Get(d, "MemberID")),
      name          |-> Get(d, "Name"),
      context       |-> Get(d, "PhysicalContext"),
      volts         |-> _num(Get(d, "ReadingVolts")),
      lower_noncrit |-> _num(Get(d, "LowerThresholdNonCritical")),
      lower_crit    |-> _num(Get(d, "LowerThresholdCritical")),
      upper_noncrit |-> _num(Get(d, "UpperThresholdNonCritical")),
      upper_crit    |-> _num(Get(d, "UpperThresholdCritical")),
      state         |-> StatusState(d),
      health        |-> StatusHealth(d),
      sensor_number |-> _num(Get(d, "SensorNumber")),
      odata_id      |-> Get(d, "@odata.id") ]
RailRecord(item) ==
    IF ~item.isDict \/ StatusBad(item.d) THEN NotADict
    ELSE Computed(RailFields(item.d))

MapRails(items) == MapEach([i \in 1..Len(items) |-> RailRecord(items[i])])

\* rails_by_mid.get(str(member_id), {}): the last rail of context
\* "PowerSupply" with a member id whose str() is the key, or no rail.
RailMatches(rails, key) ==
    {i \in 1..Len(rails) : /\ rails[i].context = Str(STR_PowerSupply)
                           /\ rails[i].member_id # None
                           /\ PyStr(rails[i].member_id) = key}
LastOf(S) == CHOOSE i \in S : \A j \in S : j <= i
NoRail == [volts |-> None, odata_id |-> None]
RailAmong(rails, matches) == IF matches = {} THEN NoRail ELSE rails[LastOf(matches)]
RailFor(rails, key) == RailAmong(rails, RailMatches(rails, key))

\* The loop body over PowerSupplies in fetch_power: [exc, rec]
PsuFields(d, mid, rail) ==
    [ member_id         |-> mid,
      name              |-> Or(Get(d, "Name"), Str(STR_PSU \o PyStr(mid))),
      state             |-> StatusState(d),
      last_power        |-> _num(Get(d, "LastPowerOutputWatts")),
      line_input_volts  |-> _num(Get(d, "LineInputVoltage")),
      serial            |-> Get(d, "SerialNumber"),
      model             |-> Get(d, "Model"),
      part_number       |-> Get(d, "PartNumber"),
      spare_part_number |-> Get(d, "SparePartNumber"),
      odata_id          |-> Get(d, "@odata.id"),
      voltage           |-> rail.volts,
      voltage_odata_id  |-> rail.odata_id ]
PsuStitched(d, mid, rails) ==
    IF IsRaised(mid) THEN [exc |-> Exc(ExcName(mid), 0), rec |-> NoKeys]
    ELSE Computed(PsuFields(d, mid, RailFor(rails, PyStr(mid))))
PsuRecord(item, rails) ==
    IF ~item.isDict THEN NotADict
    ELSE IF StatusBad(item.d) THEN NotADict
    ELSE PsuStitched(item.d, MemberId(Get(item.d, "MemberID")), rails)
MapPsus(items, rails) ==
    MapEach([i \in 1..Len(items) |-> PsuRecord(items[i], rails)])

\* The overall power block of fetch_power: [exc, rec].  The body's
\* PowerMetric key stands for PowerControl.PowerMetric.
PowerFields(pcd, pm) ==
    [ consumed_watts |-> _num(_num(Get(pcd, "PowerConsumedWatts"))),
      min_watts      |-> _num(Get(pm, "MinConsumedWatts")),
      avg_watts      |-> _num(Get(pm, "AverageConsumedWatts")),
      max_watts      |-> _num(Get(pm, "MaxConsumedWatts")),
      interval_min   |-> _num(Get(pm, "IntervalInMin")) ]
PowerControlOf(body) ==
    IF "PowerControl" \in DOMAIN body.d THEN body.d["PowerControl"] ELSE Obj(NoKeys)
PowerMetricOf(body) ==
    IF "PowerMetric" \in DOMAIN body.d THEN body.d["PowerMetric"] ELSE NoKeys
PowerOf(pcObj, pm) ==
    IF ~pcObj.isDict THEN NotADict ELSE Computed(PowerFields(pcObj.d, pm))
PowerBlock(body) == PowerOf(PowerControlOf(body), PowerMetricOf(body))

\* fetch_power.  r.coll answers the chassis collection, r.power the Power GET.
PowerReturn(ch, pb, rails, psus) ==
    IF psus.exc # NoExc THEN Result(psus.exc, NoValue, ch.cached, Append(ch.reqs, "Power"))
    ELSE Result(NoExc, [power |-> pb.rec, psus |-> psus.recs, voltages |-> rails.recs],
                ch.cached, Append(ch.reqs, "Power"))
PowerPsus(r, ch, pb, rails) ==
    IF rails.exc # NoExc THEN Result(rails.exc, NoValue, ch.cached, Append(ch.reqs, "Power"))
    ELSE PowerReturn(ch, pb, rails,
                     MapPsus(ArrayOf(r.power.body, "PowerSupplies"), rails.recs))
PowerRails(r, ch, pb) ==
    IF pb.exc # NoExc THEN Result(pb.exc, NoValue, ch.cached, Append(ch.reqs, "Power"))
    ELSE PowerPsus(r, ch, pb, MapRails(ArrayOf(r.power.body, "Voltages")))
PowerGet(r, ch) ==
    IF ch.exc # NoExc THEN Result(ch.exc, NoValue, ch.cached, ch.reqs)
    ELSE IF r.power.exc # NoExc
    THEN Result(r.power.exc, NoValue, ch.cached, Append(ch.reqs, "Power"))
    ELSE IF ~r.power.body.isDict
    THEN Result(Exc("AttributeError", 0), NoValue, ch.cached, Append(ch.reqs, "Power"))
    ELSE PowerRails(r, ch, PowerBlock(r.power.body))
fetch_power(cp, r) == PowerGet(r, _ensure_chassis(cp, r.coll))

\* fetch_all, one sub-fetch at a time.
\*   out = self.fetch_fans()
\*   with suppress(Exception): out.update(self.fetch_power())
\*   with suppress(Exception): out["temperatures"] = self.fetch_temperatures()
Suppresses(x) == IsA(x, "Exception")
Update(d, more) == [k \in DOMAIN d \cup DOMAIN more |->
                       IF k \in DOMAIN more THEN more[k] ELSE d[k]]
\* (a variant that leaves an empty psus list behind when the fetch failed)
AfterPowerPartial(o, res) ==
    IF res.exc = NoExc THEN Update(o, res.value) ELSE Update(o, [psus |-> <<>>])
AfterPower(o, res) ==
    IF res.exc = NoExc THEN Update(o, res.value) ELSE o
AfterTemps(o, res) ==
    IF res.exc = NoExc THEN Update(o, [temperatures |-> res.value]) ELSE o

---------------------------------------------------------------------------
(* The controller's answers during polling *)

MaxFans == 1

HostName      == Str(<<"h", "1">>)
PATH_C1       == Str(<<"/", "c", "1">>)
PATH_C2       == Str(<<"/", "c", "2">>)
TEXT_1200     == Str(<<"1", "2", "0", "0">>)
TEXT_1        == Str(<<"1">>)
TEXT_2        == Str(<<"2">>)
TEXT_FAN1     == Str(<<"F", "A", "N", "1">>)
TEXT_PSU1     == Str(<<"P", "S", "U", "1">>)
TEXT_P12V     == Str(<<"P", "1", "2", "V">>)
TEXT_TEMP     == Str(<<"P", "S", "U", "1", "_", "T", "E", "M", "P">>)
TEXT_F2       == Str(<<"/", "f", "2">>)
TEXT_OK       == <<"O", "K">>
TEXT_Enabled  == <<"E", "n", "a", "b", "l", "e", "d">>
TEXT_UCS      == Str(<<"U", "C", "S">>)

Member(path) == Obj([k \in {"@odata.id"} |-> path])
Collection(members) == Json(Obj([k \in {"Members"} |-> members]))

PollCollResps ==
    { Fails(Exc("ConnectionError", 0)),
      Collection(JArr(<<>>)),
      Collection(JArr(<<Member(PATH_C1)>>)),
      Collection(JArr(<<Member(Str(<<>>))>>)) }

FanDirect == Obj([k \in {"Reading", "MemberID", "Name", "Status"} |->
                    CASE k = "Reading"  -> TEXT_1200
                      [] k = "MemberID" -> TEXT_1
                      [] k = "Name"     -> TEXT_FAN1
                      [] k = "Status"   -> StatusObj(TEXT_Enabled, TEXT_OK)])
FanLink   == Obj([k \in {"@odata.id"} |-> TEXT_F2])
FanLinked == Obj([k \in {"ReadingRPM", "MemberID", "@odata.id"} |->
                    CASE k = "ReadingRPM" -> IntV(900)
                      [] k = "MemberID"   -> IntV(2)
                      [] k = "@odata.id"  -> TEXT_F2])
PollFanItems == {FanDirect, FanLink}

RECURSIVE SeqsUpTo(_, _)
SeqsUpTo(S, k) ==
    IF k = 0 THEN {<<>>}
    ELSE LET shorter == SeqsUpTo(S, k - 1)
         IN shorter \cup {Append(q, x) : q \in {y \in shorter : Len(y) = k - 1}, x \in S}

Thermal(key, items) == Json(Obj([k \in {key} |-> JArr(items)]))

PollThermalResps ==
    {Fails(Exc("HTTPError", 500))}
    \cup {Thermal("Fans", items) : items \in SeqsUpTo(PollFanItems, MaxFans)}
PollLinkResps    == {Fails(Exc("ReadTimeout", 0)), Json(FanLinked)}
ChassisJson ==
    Json(Obj([k \in {"Manufacturer", "SerialNumber"} |->
                 IF k = "Manufacturer" THEN TEXT_UCS ELSE TEXT_1200]))
PollChassisResps == {ChassisJson}

TempDirect == Obj([k \in {"ReadingCelsius", "MemberID", "Name", "Status"} |->
                     CASE k = "ReadingCelsius" -> IntV(41)
                       [] k = "MemberID"       -> IntV(1)
                       [] k = "Name"           -> TEXT_TEMP
                       [] k = "Status"         -> StatusObj(TEXT_Enabled, TEXT_OK)])
PollTempResps ==
    { Fails(Exc("HTTPError", 500)),
      Thermal("Temperatures", <<>>),
      Thermal("Temperatures", <<TempDirect>>) }

RailPsu1 == Obj([k \in {"MemberID", "Name", "PhysicalContext", "ReadingVolts"} |->
                   CASE k = "MemberID"        -> TEXT_1
                     [] k = "Name"            -> TEXT_P12V
                     [] k = "PhysicalContext" -> Str(STR_PowerSupply)
                     [] k = "ReadingVolts"    -> Float(121, 1)])
Psu1     == Obj([k \in {"MemberID", "Name", "LastPowerOutputWatts"} |->
                   CASE k = "MemberID"             -> TEXT_1
                     [] k = "Name"                 -> TEXT_PSU1
                     [] k = "LastPowerOutputWatts" -> IntV(250)])
PowerJson(rails, psus) ==
    Json(Obj([k \in {"Voltages", "PowerSupplies"} |->
                 IF k = "Voltages" THEN JArr(rails) ELSE JArr(psus)]))
PollPowerResps ==
    { Fails(Exc("HTTPError", 404)),
      Json(NotObj),
      PowerJson(<<RailPsu1>>, <<Psu1>>),
      PowerJson(<<>>, <<Psu1>>) }

\* The answers one sub-fetch may get.
FansAnswers ==
    [coll : PollCollResps, thermal : PollThermalResps,
     links : [1..MaxFans -> PollLinkResps], chassis : PollChassisResps]
PowerAnswers == [coll : PollCollResps, power : PollPowerResps]
TempsAnswers == [coll : PollCollResps, thermal : PollTempResps,
                 links : [1..MaxFans -> PollLinkResps]]

---------------------------------------------------------------------------
(* Set-up and polling: async_setup_entry and the coordinator it creates *)

DEFAULT_SCAN_INTERVAL == 30
Intervals == {5, DEFAULT_SCAN_INTERVAL}

NoData == [nodata |-> TRUE]

\* The coordinator keeps what update_method returned: self.data = <result>.
\* (a variant that merges the result into the snapshot it had)
StoreMerged(old, new) == IF old = NoData THEN new ELSE Update(old, new)
StoreResult(old, new) == new

\* Which request of fetch_fans the controller's answers make fail first:
\* the discovery, the Thermal GET, or the follow-up GET of a bare link.
LinkFails(items, links) ==
    \E i \in 1..Len(items) : IsLink(items[i]) /\ links[i].exc # NoExc
FansFault(cp, r) ==
    IF ~Truthy(cp) /\ _pick_chassis(r.coll).exc # NoExc THEN "discovery"
    ELSE IF r.thermal.exc # NoExc THEN "thermal"
    ELSE IF r.thermal.body.isDict /\ LinkFails(ArrayOf(r.thermal.body, "Fans"), r.links)
    THEN "link"
    ELSE "none"

\* Nothing set up, no flow open, no call made.
NumIdle  == arg = None /\ ret = Pending
PollIdle ==
    /\ session = FALSE /\ chassis_path = None /\ pc = "idle" /\ out = NoValue
    /\ data = NoData /\ pollExc = NoExc
    /\ fansOutcome = "none" /\ powerOutcome = "none" /\ tempsOutcome = "none"
    /\ requested = <<>> /\ discovered = FALSE /\ lastReturned = NoData
    /\ fansFault = "none" /\ replacedPsus = FALSE
    /\ loaded = FALSE /\ interval = DEFAULT_SCAN_INTERVAL
FlowIdle ==
    /\ flow = "none" /\ flowHost = None /\ configured = {} /\ formError = ""
    /\ probeRuns = 0 /\ probeExc = NoExc /\ probeRes = NoData /\ probeAnswer = NoData
    /\ submitted = FALSE
ItemIdle ==
    /\ sensorKind = "none" /\ sensorItem = NotObj /\ sensorRec = Pending

UnitIdle ==
    /\ powerAnswer = NoData /\ powerResult = Pending
    /\ linkKind = "none" /\ linkEntry = NotObj /\ linkAnswer = NoData
    /\ linkOut = Pending
    /\ nameRaw = None /\ nameOut = Pending
    /\ entities = <<>> /\ firstData = NoData

Init == NumIdle /\ PollIdle /\ FlowIdle /\ ItemIdle /\ UnitIdle

StartPoll ==
    /\ pc' = "fans"
    /\ out' = NoValue
    /\ pollExc' = NoExc
    /\ fansOutcome' = "none" /\ powerOutcome' = "none" /\ tempsOutcome' = "none"
    /\ requested' = <<>>
    /\ fansFault' = "none"

\* async_setup_entry: a new client and coordinator, then the first refresh.
SetupEntry ==
    /\ ~loaded /\ pc = "idle"
    /\ session' = FALSE /\ chassis_path' = None /\ discovered' = FALSE
    /\ data' = NoData /\ lastReturned' = NoData /\ replacedPsus' = FALSE
    /\ interval' = DEFAULT_SCAN_INTERVAL
    /\ StartPoll
    /\ UNCHANGED <<loaded, numVars, flowVars, itemVars, unitVars>>

\* The coordinator's timer: the next poll.  The host's coordinator is taken
\* to start it only once the previous refresh is over (pc = "idle"); nothing
\* in the integration's own code enforces that.
ScheduledPoll ==
    /\ loaded /\ pc = "idle"
    /\ StartPoll
    /\ UNCHANGED <<session, chassis_path, discovered, data, lastReturned,
                   replacedPsus, loaded, interval, numVars, flowVars, itemVars, unitVars>>

\* _update_listener: the new interval, then a refresh, started under the
\* same assumption on the host's coordinator.
UpdateListener ==
    /\ loaded /\ pc = "idle"
    /\ \E n \in Intervals : interval' = n
    /\ StartPoll
    /\ UNCHANGED <<session, chassis_path, discovered, data, lastReturned,
                   replacedPsus, loaded, numVars, flowVars, itemVars, unitVars>>

Discovered(res) == Len(res.reqs) >= 2 /\ res.reqs[1] = "Chassis"

\* fetch_all: out = self.fetch_fans()
FansStep(fault, res) ==
    /\ fansFault' = fault
    /\ session' = TRUE
    /\ chassis_path' = res.cached
    /\ requested' = res.reqs
    /\ discovered' = (discovered \/ Discovered(res))
    /\ IF res.exc = NoExc
       THEN /\ out' = res.value
            /\ fansOutcome' = "ok"
            /\ pollExc' = NoExc
            /\ pc' = "power"
       ELSE /\ out' = NoValue
            /\ fansOutcome' = "raised"
            /\ pollExc' = res.exc
            /\ pc' = "raised"
StepFans ==
    /\ pc = "fans"
    /\ \E r \in FansAnswers :
          FansStep(FansFault(chassis_path, r), fetch_fans(HostName, chassis_path, r))
    /\ UNCHANGED <<powerOutcome, tempsOutcome, data, lastReturned, replacedPsus,
                   loaded, interval,
                   numVars, flowVars, itemVars, unitVars>>

\* fetch_all: with suppress(Exception): out.update(self.fetch_power())
PowerStep(res) ==
    /\ chassis_path' = res.cached
    /\ requested' = res.reqs
    /\ discovered' = (discovered \/ Discovered(res))
    /\ IF res.exc = NoExc \/ Suppresses(res.exc)
       THEN /\ out' = AfterPower(out, res)
            /\ powerOutcome' = IF res.exc = NoExc THEN "ok" ELSE "raised"
            /\ pollExc' = NoExc
            /\ pc' = "temps"
       ELSE /\ out' = NoValue
            /\ powerOutcome' = "raised"
            /\ pollExc' = res.exc
            /\ pc' = "raised"
StepPower ==
    /\ pc = "power"
    /\ \E r \in PowerAnswers : PowerStep(fetch_power(chassis_path, r))
    /\ UNCHANGED <<session, fansOutcome, tempsOutcome, data, lastReturned, fansFault,
                   replacedPsus, loaded, interval, numVars, flowVars, itemVars, unitVars>>

\* fetch_all: with suppress(Exception): out["temperatures"] = ...; return out
TempsStep(res) ==
    /\ chassis_path' = res.cached
    /\ requested' = res.reqs
    /\ discovered' = (discovered \/ Discovered(res))
    /\ IF res.exc = NoExc \/ Suppresses(res.exc)
       THEN /\ out' = AfterTemps(out, res)
            /\ tempsOutcome' = IF res.exc = NoExc THEN "ok" ELSE "raised"
            /\ pollExc' = NoExc
            /\ pc' = "returned"
            /\ lastReturned' = out'
       ELSE /\ out' = NoValue
            /\ tempsOutcome' = "raised"
            /\ pollExc' = res.exc
            /\ pc' = "raised"
            /\ lastReturned' = lastReturned
StepTemps ==
    /\ pc = "temps"
    /\ \E r \in TempsAnswers : TempsStep(fetch_temperatures(chassis_path, r))
    /\ UNCHANGED <<session, fansOutcome, powerOutcome, data, fansFault, replacedPsus,
                   loaded, interval,
                   numVars, flowVars, itemVars, unitVars>>

\* The refresh ends with a result: the coordinator stores it; after the first
\* refresh the entry is set up.
PollStored ==
    /\ pc = "returned"
    /\ data' = StoreResult(data, out)
    /\ replacedPsus' = (replacedPsus \/ "psus" \in DOMAIN data)
    /\ loaded' = TRUE
    /\ pc' = "idle"
    /\ UNCHANGED <<session, chassis_path, out, pollExc, fansOutcome, powerOutcome,
                   tempsOutcome, requested, discovered, lastReturned, fansFault,
                   interval,
                   numVars, flowVars, itemVars, unitVars>>

\* The refresh ends with an exception: the data stays; a failed first
\* refresh raises ConfigEntryNotReady and the entry stays not set up.
PollFailed ==
    /\ pc = "raised"
    /\ pc' = "idle"
    /\ UNCHANGED <<session, chassis_path, out, data, pollExc, fansOutcome,
                   powerOutcome, tempsOutcome, requested, discovered, lastReturned,
                   fansFault, replacedPsus, loaded, interval, numVars, flowVars, itemVars, unitVars>>

\* async_unload_entry
UnloadEntry ==
    /\ loaded /\ pc = "idle"
    /\ loaded' = FALSE
    /\ data' = NoData /\ lastReturned' = NoData /\ replacedPsus' = FALSE
    /\ UNCHANGED <<session, chassis_path, pc, out, pollExc, fansOutcome, powerOutcome,
                   tempsOutcome, requested, discovered, fansFault, interval,
                   numVars, flowVars, itemVars, unitVars>>

Next ==
    \/ SetupEntry
    \/ ScheduledPoll
    \/ UpdateListener
    \/ StepFans
    \/ StepPower
    \/ StepTemps
    \/ PollStored
    \/ PollFailed
    \/ UnloadEntry

Spec == Init /\ [][Next]_vars

---------------------------------------------------------------------------
(* The inputs _num is tried on *)

MaxStrLen == 3
Alphabet  == {"0", "1", "5", ".", "-", " ", "a"}
RECURSIVE StringsUpTo(_)
StringsUpTo(k) ==
    IF k = 0 THEN {<<>>}
    ELSE LET shorter == StringsUpTo(k - 1)
         IN shorter \cup {Append(cs, c) : cs \in {x \in shorter : Len(x) = k - 1},
                                           c \in Alphabet}
NamedTexts == { <<"1", "2", "3">>, <<"1", "2", ".", "5">>, <<"a", "b", "c">>,
                <<"N", "/", "A">>, <<" ", "4", "2", " ">>, <<"+", "7">>,
                <<"1", "2", ".", "5", "0">> }
NumInputs ==
    {None, List, Bool(FALSE), Bool(TRUE)}
    \cup {IntV(i) : i \in {-3, 0, 7, 123}}
    \cup {Float(125, 1), Float(-15, 1), Float(5, 1), Float(20, 1), Float(0, 0)}
    \cup {Inf, NegInf, NaN}
    \cup {Str(cs) : cs \in StringsUpTo(MaxStrLen) \cup NamedTexts}

InitNum ==
    /\ arg \in NumInputs
    /\ ret = Pending
    /\ PollIdle /\ FlowIdle /\ ItemIdle /\ UnitIdle

CallNum ==
    /\ ret = Pending
    /\ ret' = CallResult(_num(arg))
    /\ arg' = arg
    /\ UNCHANGED <<pollVars, flowVars, itemVars, unitVars>>

SpecNum == InitNum /\ [][CallNum]_vars

---------------------------------------------------------------------------
(* The configuration flow: async_step_user and _async_validate *)

\* The reason code for an exception of the probe's fetch_fans, by the except
\* clauses in their order.
ValidateHTTP(code) ==
    CASE code = 401         -> "invalid_auth"
      [] code = 403         -> "forbidden"
      [] code \in {404, 405} -> "not_supported"
      [] OTHER              -> "cannot_connect"
ValidateRaised(x) ==
    IF IsA(x, "HTTPError") THEN ValidateHTTP(x.code)
    ELSE IF IsA(x, "SSLError") THEN "ssl_error"
    ELSE IF IsA(x, "ConnectTimeout") THEN "timeout"
    ELSE IF IsA(x, "ConnectionError") THEN "cannot_connect"
    ELSE "unknown"

\* _async_validate, on what its one call of client.fetch_fans did:
\* (ok, err) and the number of fetch_fans calls made.
Validated(ok, err, calls) == [ok |-> ok, err |-> err, calls |-> calls]
\* (a variant that fetches a second time after a failure)
_async_validateRetry(res) ==
    IF res.exc # NoExc THEN Validated(FALSE, ValidateRaised(res.exc), 2)
    ELSE IF "fans" \notin DOMAIN res.value THEN Validated(FALSE, "cannot_connect", 1)
    ELSE Validated(TRUE, "", 1)
_async_validate(res) ==
    IF res.exc # NoExc THEN Validated(FALSE, ValidateRaised(res.exc), 1)
    ELSE IF "fans" \notin DOMAIN res.value THEN Validated(FALSE, "cannot_connect", 1)
    ELSE Validated(TRUE, "", 1)

Hosts == {HostName, Str(<<"h", "2">>)}

\* What the controller may answer the probe.
ProbeCollResps ==
    { Fails(Exc("ConnectionError", 0)), Fails(Exc("SSLError", 0)),
      Fails(Exc("ConnectTimeout", 0)), Fails(Exc("ReadTimeout", 0)),
      Fails(Exc("HTTPError", 401)), Fails(Exc("HTTPError", 403)),
      Fails(Exc("HTTPError", 404)), Fails(Exc("HTTPError", 405)),
      Fails(Exc("HTTPError", 500)),
      Json(Obj(NoKeys)),
      Collection(JNull),
      Collection(JArr(<<>>)),
      Collection(JArr(<<Member(PATH_C2), Member(PATH_C1)>>)) }
ProbeThermalResps ==
    {Fails(Exc("ReadTimeout", 0)), Json(NotObj)}
    \cup {Thermal("Fans", items) : items \in SeqsUpTo(PollFanItems, MaxFans)}
ProbeChassisResps == {Fails(Exc("ConnectionError", 0)), Json(NotObj), ChassisJson}
ProbeAnswers ==
    [coll : ProbeCollResps, thermal : ProbeThermalResps,
     links : [1..MaxFans -> PollLinkResps], chassis : ProbeChassisResps]

\* async_step_user(None): a flow opens with the empty form.
ShowForm ==
    /\ flow \in {"none", "aborted", "created"}
    /\ flow' = "form" /\ flowHost' = None /\ formError' = ""
    /\ probeRuns' = 0 /\ probeExc' = NoExc /\ probeRes' = NoData
    /\ probeAnswer' = NoData /\ submitted' = FALSE
    /\ UNCHANGED <<configured, numVars, pollVars, itemVars, unitVars>>

\* async_step_user(user_input) for a host that has an entry:
\* _abort_if_unique_id_configured ends the flow.
SubmitConfigured ==
    /\ flow = "form"
    /\ \E host \in configured : flowHost' = host
    /\ flow' = "aborted" /\ formError' = "" /\ submitted' = TRUE
    /\ probeRuns' = 0 /\ probeExc' = NoExc /\ probeRes' = NoData
    /\ probeAnswer' = NoData
    /\ UNCHANGED <<configured, numVars, pollVars, itemVars, unitVars>>

\* async_step_user(user_input) otherwise: the probe, then the form with
\* errors["base"] = err or "cannot_connect", or the entry.
AfterValidate(host, res, v) ==
    /\ probeRuns' = v.calls
    /\ probeExc' = res.exc
    /\ probeRes' = IF res.exc = NoExc THEN res.value ELSE NoData
    /\ IF v.ok
       THEN /\ flow' = "created"
            /\ configured' = configured \cup {host}
            /\ formError' = ""
       ELSE /\ flow' = "form"
            /\ configured' = configured
            /\ formError' = IF v.err = "" THEN "cannot_connect" ELSE v.err
Validate(host, res) == AfterValidate(host, res, _async_validate(res))
SubmitNew ==
    /\ flow = "form"
    /\ \E host \in Hosts \ configured, r \in ProbeAnswers :
          /\ flowHost' = host
          /\ probeAnswer' = r
          /\ Validate(host, fetch_fans(host, None, r))
    /\ submitted' = TRUE
    /\ UNCHANGED <<numVars, pollVars, itemVars, unitVars>>

NextFlow ==
    \/ ShowForm
    \/ SubmitConfigured
    \/ SubmitNew

SpecFlow == Init /\ [][NextFlow]_vars

---------------------------------------------------------------------------
(* One array entry through the loop body of a fetch *)

AsReading(key, v) == Obj([k \in {key} |-> v])
FanEntry(reading, rpm) ==
    Obj([k \in {"Reading", "ReadingRPM"} |-> IF k = "Reading" THEN reading ELSE rpm])
SensorEntries(kind) ==
    CASE kind = "fan"  -> {FanEntry(v, w) : v \in NumInputs,
                                            w \in {None, IntV(900), Str(<<"a", "b", "c">>)}}
      [] kind = "temp" -> {AsReading("ReadingCelsius", v) : v \in NumInputs}
      [] kind = "rail" -> {AsReading("ReadingVolts", v) : v \in NumInputs}

InitItem ==
    /\ NumIdle /\ PollIdle /\ FlowIdle /\ UnitIdle
    /\ sensorKind \in {"fan", "temp", "rail"}
    /\ sensorItem \in SensorEntries(sensorKind)
    /\ sensorRec = Pending

Normalise ==
    /\ sensorRec = Pending
    /\ sensorRec' = CASE sensorKind = "fan"  -> FanRecord(sensorItem)
                      [] sensorKind = "temp" -> TempRecord(sensorItem)
                      [] sensorKind = "rail" -> RailRecord(sensorItem)
    /\ UNCHANGED <<sensorKind, sensorItem, numVars, pollVars, flowVars, unitVars>>

SpecItem == InitItem /\ [][Normalise]_vars

---------------------------------------------------------------------------
(* fetch_power alone, on Power resources with several rails and PSUs *)

MaxRails == 2

TEXT_None == Str(<<"N", "o", "n", "e">>)
TEXT_V1   == Str(<<"/", "v", "1">>)
TEXT_V2   == Str(<<"/", "v", "2">>)
STR_SystemBoard == <<"S", "y", "s", "t", "e", "m", "B", "o", "a", "r", "d">>

\* One entry of Voltages; a key whose value is None is a key the entry lacks.
Rail(mid, context, volts, oid) ==
    Obj([k \in {"MemberID", "PhysicalContext", "ReadingVolts", "@odata.id",
                "UpperThresholdCritical"} |->
           CASE k = "MemberID"        -> mid
             [] k = "PhysicalContext" -> Str(context)
             [] k = "ReadingVolts"    -> volts
             [] k = "@odata.id"       -> oid
             [] OTHER                 -> IF volts = None THEN None
                                         ELSE IntV(volts.n + 1)])
\* One entry of PowerSupplies.
Psu(mid, name, watts) ==
    Obj([k \in {"MemberID", "Name", "LastPowerOutputWatts"} |->
           CASE k = "MemberID" -> mid
             [] k = "Name"     -> name
             [] OTHER          -> watts])

RailEntries ==
    { Rail(TEXT_1,    STR_PowerSupply, IntV(12), TEXT_V1),
      Rail(IntV(1),   STR_SystemBoard, IntV(3),  TEXT_V2),
      Rail(IntV(1),   STR_PowerSupply, IntV(5),  None),
      Rail(TEXT_2,    STR_PowerSupply, IntV(7),  None),
      Rail(None,      STR_PowerSupply, IntV(9),  None),
      Rail(TEXT_None, STR_PowerSupply, IntV(11), None) }
PsuEntries ==
    { Psu(TEXT_1, TEXT_PSU1, IntV(250)),
      Psu(IntV(2), None, None),
      Psu(None, TEXT_PSU1, IntV(250)) }

PowerOnlyAnswers ==
    [coll  : {Fails(Exc("ConnectionError", 0))},
     power : {PowerJson(rails, psus) : rails \in SeqsUpTo(RailEntries, MaxRails),
                                       psus \in SeqsUpTo(PsuEntries, 1)}]

InitPower ==
    /\ NumIdle /\ PollIdle /\ FlowIdle /\ ItemIdle
    /\ powerAnswer \in PowerOnlyAnswers
    /\ powerResult = Pending
    /\ linkKind = "none" /\ linkEntry = NotObj /\ linkAnswer = NoData
    /\ linkOut = Pending
    /\ nameRaw = None /\ nameOut = Pending
    /\ entities = <<>> /\ firstData = NoData

\* One call of fetch_power by a client that knows its chassis path.
CallPower ==
    /\ powerResult = Pending
    /\ powerResult' = fetch_power(PATH_C1, powerAnswer)
    /\ UNCHANGED <<powerAnswer, linkKind, linkEntry, linkAnswer, linkOut,
                   nameRaw, nameOut, entities, firstData>>
    /\ UNCHANGED <<numVars, pollVars, flowVars, itemVars>>

SpecPower == InitPower /\ [][CallPower]_vars

---------------------------------------------------------------------------
(* The sensor platform: the entities made from a snapshot, what they read *)

MaxRecs == 2

\* fetch_all as one call, by a client that has yet to find its chassis
FetchRest(a, fans) ==
    IF fans.exc # NoExc THEN [exc |-> fans.exc, value |-> NoValue]
    ELSE [exc |-> NoExc,
          value |-> AfterTemps(AfterPower(fans.value, fetch_power(fans.cached, a)),
                               fetch_temperatures(fans.cached, a))]
fetch_all(host, a) == FetchRest(a, fetch_fans(host, None, a))

\* s.replace(a, b) for one-character a and b
ReplaceChar(s, a, b) == [i \in 1..Len(s) |-> IF s[i] = a THEN b ELSE s[i]]
\* coordinator.data.get(key, []) or []
Records(d, key) == IF key \in DOMAIN d THEN d[key] ELSE <<>>
\* str(rec.get("member_id") or rec.get("name"))
RecordKey(rec) == PyStr(Or(rec.member_id, rec.name))

\* f"{host}:{odata or id}".replace("/", "_")
SensorUniqueId(host, odata, id) ==
    ReplaceChar((PyStr(host) \o <<":">>) \o PyStr(Or(odata, Str(id))), "/", "_")
\* An entity: its kind, its lookup key (_fan_id, _temp_id, _id), its unique
\* id, and src, the place in the list of the record it was made from (history).
CimcFanSensor(host, fan, i) ==
    [ kind |-> "fan", src |-> i, id |-> RecordKey(fan),
      unique_id |-> SensorUniqueId(host, fan.odata_id, RecordKey(fan)) ]
CimcTemperatureSensor(host, temp, i) ==
    [ kind |-> "temp", src |-> i, id |-> RecordKey(temp),
      unique_id |-> SensorUniqueId(host, temp.odata_id, RecordKey(temp)) ]
PsuName(psu) == Or(psu.name, Str(STR_PSU \o PyStr(psu.member_id)))
_psu_base(psu) ==
    ReplaceChar(PyStr(Or(psu.odata_id,
                         Str(<<"p", "s", "u", ":">> \o PyStr(Or(psu.member_id, PsuName(psu)))))),
                "/", "_")
CimcPsuVoltageSensor(host, psu, i) ==
    [ kind |-> "psu_voltage", src |-> i, id |-> RecordKey(psu),
      unique_id |-> ((PyStr(host) \o <<":">>) \o _psu_base(psu))
                    \o <<":", "v", "o", "l", "t", "a", "g", "e">> ]
CimcPsuPowerSensor(host, psu, i) ==
    [ kind |-> "psu_power", src |-> i, id |-> RecordKey(psu),
      unique_id |-> ((PyStr(host) \o <<":">>) \o _psu_base(psu))
                    \o <<":", "p", "o", "w", "e", "r">> ]

\* sensor.async_setup_entry: the list handed to async_add_entities
FanSensors(host, fans)   == [i \in 1..Len(fans) |-> CimcFanSensor(host, fans[i], i)]
TempSensors(host, temps) == [i \in 1..Len(temps) |-> CimcTemperatureSensor(host, temps[i], i)]
PsuSensorsOf(host, psu, i) ==
    (IF psu.voltage # None THEN <<CimcPsuVoltageSensor(host, psu, i)>> ELSE <<>>)
    \o (IF psu.last_power # None THEN <<CimcPsuPowerSensor(host, psu, i)>> ELSE <<>>)
PsuSensors(host, psus) == Flatten([i \in 1..Len(psus) |-> PsuSensorsOf(host, psus[i], i)])
SensorEntities(d) ==
    (FanSensors(d.device.host, Records(d, "fans"))
       \o PsuSensors(d.device.host, Records(d, "psus")))
    \o TempSensors(d.device.host, Records(d, "temperatures"))
\* The entities after a later poll: nothing adds or removes one.
\* (a variant that makes the entities afresh from every snapshot)
AfterRefreshAfresh(old, d) == SensorEntities(d)
AfterRefresh(old, d) == old

\* native_value and extra_state_attributes: the first record with the key
ListKey(kind) ==
    CASE kind = "fan" -> "fans" [] kind = "temp" -> "temperatures" [] OTHER -> "psus"
ValueKey(kind) ==
    CASE kind = "fan" -> "rpm" [] kind = "temp" -> "celsius"
      [] kind = "psu_voltage" -> "voltage" [] OTHER -> "last_power"
Matching(recs, id) == {i \in 1..Len(recs) : RecordKey(recs[i]) = id}
Found(recs, id) == IF Matching(recs, id) = {} THEN 0 ELSE FirstOf(Matching(recs, id))
FoundBy(e, d) == Found(Records(d, ListKey(e.kind)), e.id)
ValueAt(recs, i, key) == IF i = 0 THEN None ELSE recs[i][key]
native_value(e, d) == ValueAt(Records(d, ListKey(e.kind)), FoundBy(e, d), ValueKey(e.kind))

\* the rail extra_state_attributes of a voltage entity picks for the PSU p
RailShown(p, rails) ==
    {j \in 1..Len(rails) : \/ rails[j].odata_id = p.voltage_odata_id
                           \/ PyStr(rails[j].member_id) = PyStr(p.member_id)}
RailAttrs(rails, shown) ==
    IF shown = {} THEN NoKeys
    ELSE [k \in {"context", "sensor_number", "lower_noncrit", "lower_crit",
                 "upper_noncrit", "upper_crit", "rail_name"} |->
             IF k = "rail_name" THEN rails[FirstOf(shown)].name
             ELSE rails[FirstOf(shown)][k]]
PsuVoltageAttrs(p, rails) ==
    Update([ state |-> p.state, serial |-> p.serial, model |-> p.model,
             psu_odata_id |-> p.odata_id, rail_odata_id |-> p.voltage_odata_id,
             line_input_volts |-> p.line_input_volts ],
           RailAttrs(rails, RailShown(p, rails)))
PsuPowerAttrs(p, power) ==
    [ state |-> p.state, line_input_volts |-> p.line_input_volts,
      serial |-> p.serial, model |-> p.model, psu_odata_id |-> p.odata_id,
      power_consumed_watts |-> Get(power, "consumed_watts"),
      power_min_watts      |-> Get(power, "min_watts"),
      power_avg_watts      |-> Get(power, "avg_watts"),
      power_max_watts      |-> Get(power, "max_watts"),
      power_interval_min   |-> Get(power, "interval_min") ]
AttrKeys(kind) ==
    IF kind = "fan"
    THEN {"name", "state", "health", "context", "lower_noncrit", "lower_crit",
          "upper_noncrit", "upper_crit", "odata_id"}
    ELSE {"name", "state", "health", "context", "lower_noncrit", "lower_crit",
          "upper_noncrit", "upper_crit", "sensor_number", "odata_id"}
AttrsAt(e, d, recs, i) ==
    IF i = 0 THEN NoKeys
    ELSE CASE e.kind = "psu_voltage" -> PsuVoltageAttrs(recs[i], Records(d, "voltages"))
           [] e.kind = "psu_power" ->
                  PsuPowerAttrs(recs[i], IF "power" \in DOMAIN d THEN d.power ELSE NoKeys)
           [] OTHER -> [k \in AttrKeys(e.kind) |-> recs[i][k]]
extra_state_attributes(e, d) == AttrsAt(e, d, Records(d, ListKey(e.kind)), FoundBy(e, d))

\* What the controller answers the polls of a set-up entry.
Sensor(mid, name, key, reading, oid) ==
    Obj([k \in {"MemberID", "Name", key, "@odata.id", "Status"} |->
           CASE k = "MemberID"  -> mid
             [] k = "Name"      -> name
             [] k = "@odata.id" -> oid
             [] k = "Status"    -> StatusObj(TEXT_Enabled, TEXT_OK)
             [] OTHER           -> reading])
TEXT_F1   == Str(<<"/", "f", "1">>)
TEXT_FAN2 == Str(<<"F", "A", "N", "2">>)
FanEntries ==
    { Sensor(TEXT_1,  TEXT_FAN1, "Reading", IntV(1200), TEXT_F1),
      Sensor(IntV(1), TEXT_FAN2, "Reading", IntV(900),  TEXT_F2),
      Sensor(IntV(1), None,      "Reading", IntV(800),  None),
      Sensor(IntV(0), TEXT_FAN1, "Reading", IntV(700),  None),
      Sensor(None,    None,      "Reading", IntV(600),  None) }
TempEntries ==
    { Sensor(IntV(1), None,      "ReadingCelsius", IntV(41), None),
      Sensor(TEXT_2,  TEXT_TEMP, "ReadingCelsius", IntV(35), TEXT_V2) }
ThermalBoth(fans, temps) ==
    Json(Obj([k \in {"Fans", "Temperatures"} |->
                 IF k = "Fans" THEN JArr(fans) ELSE JArr(temps)]))
Answers(thermal, power) ==
    [ coll    |-> Collection(JArr(<<Member(PATH_C1)>>)),
      thermal |-> thermal,
      links   |-> [i \in 1..(MaxRecs + 1) |-> Fails(Exc("ReadTimeout", 0))],
      chassis |-> ChassisJson,
      power   |-> power ]
PowerOne == PowerJson(<<Rail(TEXT_1, STR_PowerSupply, IntV(12), TEXT_V1)>>,
                      <<Psu(TEXT_1, TEXT_PSU1, IntV(250))>>)
FirstAnswers ==
    {Answers(ThermalBoth(fans, temps), PowerOne) :
        fans \in SeqsUpTo(FanEntries, MaxRecs), temps \in SeqsUpTo(TempEntries, 1)}
    \cup {Answers(ThermalBoth(<<>>, <<>>), a.power) : a \in PowerOnlyAnswers}
LaterAnswers ==
    { Answers(ThermalBoth(<<>>, <<>>), Fails(Exc("HTTPError", 500))),
      Answers(ThermalBoth(<<Sensor(IntV(1), TEXT_FAN2, "Reading", IntV(950), TEXT_F2)>>,
                          <<Sensor(TEXT_2, TEXT_TEMP, "ReadingCelsius", IntV(36), TEXT_V2)>>),
              PowerOne),
      Answers(ThermalBoth(<<>>, <<>>),
              PowerJson(<<>>, <<Psu(TEXT_1, TEXT_PSU1, IntV(260))>>)) }

\* __init__.async_setup_entry: the first refresh, which must succeed, and the
\* forwarding to the sensor platform, which makes the entities.
SetupPlatform ==
    /\ firstData = NoData
    /\ \E a \in FirstAnswers :
         /\ fetch_all(HostName, a).exc = NoExc
         /\ data' = fetch_all(HostName, a).value
    /\ firstData' = data'
    /\ entities' = SensorEntities(data')
    /\ UNCHANGED <<powerAnswer, powerResult, linkKind, linkEntry, linkAnswer, linkOut,
                   nameRaw, nameOut>>
    /\ UNCHANGED <<session, chassis_path, pc, out, pollExc, fansOutcome, powerOutcome,
                   tempsOutcome, requested, discovered, lastReturned, fansFault,
                   replacedPsus, loaded, interval>>
    /\ UNCHANGED <<numVars, flowVars, itemVars>>

\* A later poll that succeeds: the coordinator replaces its snapshot and the
\* entities are told to write their state.
Refresh ==
    /\ firstData # NoData
    /\ \E a \in LaterAnswers :
         /\ fetch_all(HostName, a).exc = NoExc
         /\ data' = fetch_all(HostName, a).value
    /\ entities' = AfterRefresh(entities, data')
    /\ UNCHANGED <<powerAnswer, powerResult, linkKind, linkEntry, linkAnswer, linkOut,
                   nameRaw, nameOut, firstData>>
    /\ UNCHANGED <<session, chassis_path, pc, out, pollExc, fansOutcome, powerOutcome,
                   tempsOutcome, requested, discovered, lastReturned, fansFault,
                   replacedPsus, loaded, interval>>
    /\ UNCHANGED <<numVars, flowVars, itemVars>>

NextEntities == SetupPlatform \/ Refresh
SpecEntities == Init /\ [][NextEntities]_vars

---------------------------------------------------------------------------
(* helpers.normalize_name *)

MaxTokens == 2

StartsWith(s, p) == Len(s) >= Len(p) /\ SubSeq(s, 1, Len(p)) = p
\* s.replace(old, new): every occurrence, leftmost first, none overlapping
RECURSIVE Replace(_, _, _)
Replace(s, old, new) ==
    IF s = <<>> THEN <<>>
    ELSE IF StartsWith(s, old)
    THEN new \o Replace(SubSeq(s, Len(old) + 1, Len(s)), old, new)
    ELSE <<Head(s)>> \o Replace(Tail(s), old, new)

\* re.sub(r"WORD(\d+)", r"Repl \1", s, flags=re.IGNORECASE)
LowerCase == <<"a", "e", "f", "i", "n", "p", "r", "s", "u">>
UpperCase == <<"A", "E", "F", "I", "N", "P", "R", "S", "U">>
ToUpper(c) ==
    IF \E i \in 1..Len(LowerCase) : LowerCase[i] = c
    THEN UpperCase[CHOOSE i \in 1..Len(LowerCase) : LowerCase[i] = c]
    ELSE c
StartsWithNoCase(s, word) ==
    Len(s) >= Len(word) /\ \A i \in 1..Len(word) : ToUpper(s[i]) = word[i]
\* how many digits s has from position i on
DigitRun(s, i) ==
    IF \E j \in i..Len(s) : s[j] \notin Digits
    THEN (CHOOSE j \in i..Len(s) : s[j] \notin Digits /\ \A k \in i..(j - 1) : s[k] \in Digits) - i
    ELSE Len(s) - i + 1
RECURSIVE SubNumbered(_, _, _)
SubNumbered(s, word, repl) ==
    IF s = <<>> THEN <<>>
    ELSE IF StartsWithNoCase(s, word) /\ DigitRun(s, Len(word) + 1) > 0
    THEN (repl \o SubSeq(s, Len(word) + 1, Len(word) + DigitRun(s, Len(word) + 1)))
         \o SubNumbered(SubSeq(s, Len(word) + DigitRun(s, Len(word) + 1) + 1, Len(s)),
                        word, repl)
    ELSE <<Head(s)>> \o SubNumbered(Tail(s), word, repl)

Numbered(s) ==
    SubNumbered(SubNumbered(SubNumbered(s, <<"F", "A", "N">>, <<"F", "a", "n", " ">>), <<"R", "I", "S", "E", "R">>, <<"R", "i", "s", "e", "r", " ">>),
                <<"P", "S", "U">>, <<"P", "S", "U", " ">>)
Spaced(s) == Replace(s, <<"_">>, <<" ">>)
Expanded(s) ==
    Replace(Replace(Replace(Replace(Replace(Replace(Replace(Replace(
        Replace(s, <<"O", "U", "T", "L", "E", "T", "T", "M", "P">>, <<"O", "u", "t", "l", "e", "t", " ", "T", "e", "m", "p", "e", "r", "a", "t", "u", "r", "e">>),
        <<"O", "U", "T", "L", "E", "T">>, <<"O", "u", "t", "l", "e", "t">>),
        <<"T", "A", "C", "H">>, <<" ", "T", "a", "c", "h", " ">>),
        <<"F", "P">>, <<"F", "r", "o", "n", "t", " ", "P", "a", "n", "e", "l">>),
        <<"T", "E", "M", "P">>, <<"T", "e", "m", "p", "e", "r", "a", "t", "u", "r", "e">>),
        <<"T", "M", "P">>, <<"T", "e", "m", "p", "e", "r", "a", "t", "u", "r", "e">>),
        <<"I", "N", "L", "E", "T">>, <<"I", "n", "l", "e", "t">>),
        <<"O", "U", "T", "L", "E", "T">>, <<"O", "u", "t", "l", "e", "t">>),
        <<"P", "C", "H">>, <<"C", "h", "i", "p", "s", "e", "t">>)
Pruned(s) == Replace(Replace(s, <<"S", "E", "N", "S", "O", "R">>, <<>>), <<"S", "E", "N", "S">>, <<>>)
\* raw is None or a string; the value returned is a string
normalize_name(raw) ==
    IF ~Truthy(raw) THEN <<>> ELSE Strip(Pruned(Expanded(Spaced(Numbered(raw.s)))))

NameTokens ==
    { <<"F", "A", "N", "1">>, <<"f", "a", "n", "1", "2">>, <<"T", "A", "C", "H", "1">>, <<"P", "S", "U", "1">>, <<"T", "E", "M", "P">>, <<"R", "I", "S", "E", "R", "2">>, <<"O", "U", "T", "L", "E", "T", "T", "M", "P">>,
      <<"I", "N", "L", "E", "T">>, <<"S", "E", "N", "S", "O", "R">>, <<"F", "P">>, <<"P", "C", "H">>, <<"F", "a", "n">> }
RECURSIVE NamesOf(_)
NamesOf(k) ==
    IF k = 1 THEN NameTokens
    ELSE NamesOf(k - 1)
         \cup {(n \o <<"_">>) \o w : n \in NamesOf(k - 1), w \in NameTokens}
NameInputs == {None, Str(<<>>)} \cup {Str(n) : n \in NamesOf(MaxTokens)}

InitName ==
    /\ NumIdle /\ PollIdle /\ FlowIdle /\ ItemIdle
    /\ nameRaw \in NameInputs
    /\ nameOut = Pending
    /\ powerAnswer = NoData /\ powerResult = Pending
    /\ linkKind = "none" /\ linkEntry = NotObj /\ linkAnswer = NoData
    /\ linkOut = Pending
    /\ entities = <<>> /\ firstData = NoData

CallName ==
    /\ nameOut = Pending
    /\ nameOut' = Returned(Str(normalize_name(nameRaw)))
    /\ UNCHANGED <<nameRaw, powerAnswer, powerResult, linkKind, linkEntry, linkAnswer,
                   linkOut, entities, firstData>>
    /\ UNCHANGED <<numVars, pollVars, flowVars, itemVars>>

SpecName == InitName /\ [][CallName]_vars

---------------------------------------------------------------------------
(* One entry of the Fans or Temperatures array: _fetch_if_link, then the
   loop body that makes its record *)

EntryKeys == {"@odata.id", "Reading", "ReadingRPM", "ReadingCelsius", "Status", "Name"}
EntryValue(k) ==
    CASE k = "@odata.id"      -> TEXT_F2
      [] k = "Reading"        -> TEXT_1200
      [] k = "ReadingRPM"     -> IntV(900)
      [] k = "ReadingCelsius" -> IntV(41)
      [] k = "Status"         -> StatusObj(TEXT_Enabled, TEXT_OK)
      [] OTHER                -> TEXT_FAN1
ArrayEntries == {NotObj} \cup {Obj([k \in keys |-> EntryValue(k)]) : keys \in SUBSET EntryKeys}
LinkAnswers  == {Fails(Exc("ReadTimeout", 0)), Json(FanLinked), Json(NotObj)}

InitLink ==
    /\ NumIdle /\ PollIdle /\ FlowIdle /\ ItemIdle
    /\ linkKind \in {"fans", "temps"}
    /\ linkEntry \in ArrayEntries
    /\ linkAnswer \in LinkAnswers
    /\ linkOut = Pending
    /\ powerAnswer = NoData /\ powerResult = Pending
    /\ nameRaw = None /\ nameOut = Pending
    /\ entities = <<>> /\ firstData = NoData

\* [exc, reqs, rec]: the exception raised, the follow-up GETs, the record
EntryOut(resolved, made) ==
    IF resolved.exc # NoExc
    THEN [exc |-> resolved.exc, reqs |-> resolved.reqs, rec |-> NoKeys]
    ELSE [exc |-> made.exc, reqs |-> resolved.reqs, rec |-> made.rec]
EntryRecord(kind, item) == IF kind = "fans" THEN FanRecord(item) ELSE TempRecord(item)
EntryThrough(kind, resolved) == EntryOut(resolved, EntryRecord(kind, resolved.item))

ResolveEntry ==
    /\ linkOut = Pending
    /\ linkOut' = EntryThrough(linkKind, _fetch_if_link(linkEntry, linkAnswer))
    /\ UNCHANGED <<linkKind, linkEntry, linkAnswer, powerAnswer, powerResult,
                   nameRaw, nameOut, entities, firstData>>
    /\ UNCHANGED <<numVars, pollVars, flowVars, itemVars>>

SpecLink == InitLink /\ [][ResolveEntry]_vars

---------------------------------------------------------------------------
(* Properties of fetch_all and of the polling (under Spec) *)

Elems(q)  == {q[i] : i \in 1..Len(q)}
PowerKeys == {"power", "psus", "voltages"}

\* C1: when the fans-and-device fetch succeeded, a failure of the power
\* fetch or of the temperature fetch raises nothing out of fetch_all: the
\* snapshot keeps fans and device, has none of the failed category's keys
\* (power, psus, voltages together; temperatures), all the keys of a category
\* that succeeded, and both categories are attempted before fetch_all returns.
C1_BestEffortCategories ==
    fansOutcome = "ok" =>
        /\ pc # "raised"
        /\ pollExc = NoExc
        /\ {"fans", "device"} \subseteq DOMAIN out
        /\ powerOutcome = "raised" => DOMAIN out \cap PowerKeys = {}
        /\ powerOutcome = "ok" => PowerKeys \subseteq DOMAIN out
        /\ powerOutcome = "none" => DOMAIN out \cap PowerKeys = {}
        /\ tempsOutcome = "ok" <=> "temperatures" \in DOMAIN out
        /\ pc = "returned" => powerOutcome # "none" /\ tempsOutcome # "none"
\* fetch_all returned after a failed power fetch, with temperatures included
C1_PowerFailedTempsIncluded ==
    /\ pc = "returned"
    /\ powerOutcome = "raised"
    /\ tempsOutcome = "ok"
    /\ Len(out.temperatures) = 1
    /\ Len(out.fans) = 1

\* C2: when the discovery, the Thermal GET or the follow-up GET of a bare
\* link of fetch_fans fails, fetch_all raises: it returns no snapshot, and
\* the power and temperature fetches are not reached.
C2_FansFailureAbortsPoll ==
    fansFault # "none" =>
        /\ fansOutcome = "raised"
        /\ pollExc # NoExc
        /\ pc \in {"raised", "idle"}
        /\ out = NoValue
        /\ powerOutcome = "none" /\ tempsOutcome = "none"
\* a poll ended by the failed follow-up GET of a bare link
C2_LinkFailureRaised ==
    /\ fansFault = "link"
    /\ pc = "raised"
    /\ pollExc = Exc("ReadTimeout", 0)
    /\ requested = <<"Thermal", "Link">>

\* C4: on one client, once a chassis discovery has returned, no later fetch
\* requests the chassis collection and the cached path stays what it is; a
\* fetch whose discovery fails leaves the cache as it was, and a fetch of a
\* client that has discovered nothing starts with the collection.
ClientStep == pc \in {"fans", "power", "temps"}
C4_DiscoveredOnce ==
    [][ /\ (discovered /\ discovered') =>
             /\ chassis_path' = chassis_path
             /\ ClientStep => "Chassis" \notin Elems(requested')
        /\ (ClientStep /\ requested' = <<"Chassis">>) => chassis_path' = chassis_path
        /\ (ClientStep /\ ~discovered) => requested'[1] = "Chassis" ]_vars

\* C5: the cached snapshot is what the last fetch_all that returned
\* returned: it stays while a poll is running or has raised, and once a
\* poll's result is stored it is that result alone, so it holds psus exactly
\* when that poll's power fetch succeeded and temperatures exactly when its
\* temperature fetch did.
C5_SnapshotIsLastReturned ==
    /\ pc # "returned" => data = lastReturned
    /\ (pc = "idle" /\ loaded /\ fansOutcome = "ok") =>
          /\ data = out
          /\ "psus" \in DOMAIN data <=> powerOutcome = "ok"
          /\ "temperatures" \in DOMAIN data <=> tempsOutcome = "ok"
\* a stored snapshot without psus, after one with psus was replaced
C5_EarlierPsusGone ==
    /\ pc = "idle" /\ loaded
    /\ replacedPsus
    /\ fansOutcome = "ok" /\ powerOutcome = "raised"
    /\ "psus" \notin DOMAIN data
    /\ "fans" \in DOMAIN data

---------------------------------------------------------------------------
(* Properties of the configuration flow (under SpecFlow) *)

ReasonCodes == {"invalid_auth", "forbidden", "not_supported", "ssl_error",
                "timeout", "cannot_connect", "unknown"}
ProbeSucceeded == probeExc = NoExc /\ "fans" \in DOMAIN probeRes
ZeroMembers(resp) ==
    resp.exc = NoExc /\ resp.body.isDict /\ ArrayOf(resp.body, "Members") = <<>>

\* C3: when the chassis collection has no members (Members missing, null or
\* empty), the discovery of the probe fails with a ConnectionError and the
\* form shows the generic connection error.
C3_ZeroMembersIsConnectionError ==
    (submitted /\ probeAnswer # NoData /\ ZeroMembers(probeAnswer.coll)) =>
        /\ IsA(probeExc, "ConnectionError")
        /\ formError = "cannot_connect"

\* The reason code the taxonomy gives an exception; for an HTTP status it
\* does not name, either the generic connection error or unknown.
ClaimedReasons(x) ==
    IF IsA(x, "HTTPError")
    THEN CASE x.code = 401          -> {"invalid_auth"}
           [] x.code = 403          -> {"forbidden"}
           [] x.code \in {404, 405} -> {"not_supported"}
           [] OTHER                 -> {"cannot_connect", "unknown"}
    ELSE IF IsA(x, "SSLError") THEN {"ssl_error"}
    ELSE IF IsA(x, "Timeout") THEN {"timeout"}
    ELSE IF IsA(x, "ConnectionError") THEN {"cannot_connect"}
    ELSE {"unknown"}

\* C7: a failure of the probe's fan fetch is shown as the one reason code
\* of its kind: 401 invalid_auth, 403 forbidden, 404 and 405 not_supported,
\* a TLS failure ssl_error, a connect or read timeout timeout, another
\* connectivity failure cannot_connect, anything else unknown.
C7_ReasonCodeOfFailure ==
    (submitted /\ probeExc # NoExc) => formError \in ClaimedReasons(probeExc)

\* C8 as stated: every submission of the form runs the fan fetch exactly
\* once; an entry exists only after a probe that succeeded, and after a
\* probe that did not the form is shown with a reason code and no entry.
C8_EverySubmissionProbesOnce ==
    submitted =>
        /\ probeRuns = 1
        /\ flow = "created" => ProbeSucceeded
        /\ ~ProbeSucceeded => flow = "form" /\ formError \in ReasonCodes

\* C8, amended: a submission that the duplicate check lets through runs the
\* fan fetch exactly once, and then either the probe succeeded and the entry
\* is created, or the form is shown again with a reason code and no entry is
\* created; a submission for a host that has an entry aborts the flow
\* without any fetch; and an entry appears only in a step that ends a probe
\* that succeeded.
C8_FlowState ==
    /\ (submitted /\ flow # "aborted") =>
          /\ probeRuns = 1
          /\ flow = "created" =>
                ProbeSucceeded /\ flowHost \in configured /\ formError = ""
          /\ ~ProbeSucceeded =>
                flow = "form" /\ formError \in ReasonCodes /\ flowHost \notin configured
    /\ flow = "aborted" => probeRuns = 0 /\ flowHost \in configured
C8_ProbeOncePerNewHost ==
    /\ []C8_FlowState
    /\ [][configured' # configured =>
             /\ flow = "form" /\ flow' = "created"
             /\ probeRuns' = 1
             /\ probeExc' = NoExc /\ "fans" \in DOMAIN probeRes'
             /\ configured' = configured \cup {flowHost'}]_vars
\* the form shown again after a probe that was refused
C8_FormShownAgain ==
    /\ submitted /\ flow = "form"
    /\ probeExc = Exc("HTTPError", 401)
    /\ formError = "invalid_auth"
    /\ probeRuns = 1
    /\ configured # {}

---------------------------------------------------------------------------
(* Properties of _num (under SpecNum) and of the records (under SpecItem) *)

IntParses(v)   == ~IsRaised(PyInt(v))
FloatParses(v) == ~IsRaised(PyFloat(v))

\* C9: _num returns None for None, "" and "N/A"; otherwise int(v) when
\* that parses ("123" gives 123), else float(v) when that parses ("12.5"
\* gives 12.5), else None ("abc" gives None, never 0); and it never raises.
C9_NumCoercion ==
    ret # Pending =>
        /\ ret.status = "returned"
        /\ arg \in {None, Str(<<>>), NA} => ret.val = None
        /\ (arg \notin {None, Str(<<>>), NA} /\ IntParses(arg)) => ret.val = PyInt(arg)
        /\ (arg \notin {None, Str(<<>>), NA} /\ ~IntParses(arg) /\ FloatParses(arg)) =>
              ret.val = PyFloat(arg)
        /\ (~IntParses(arg) /\ ~FloatParses(arg)) => ret.val = None
        /\ arg = Str(<<"1", "2", "3">>) => ret.val = IntV(123)
        /\ arg = Str(<<"1", "2", ".", "5">>) => ret.val = Float(125, 1)
        /\ arg = Str(<<"a", "b", "c">>) => ret.val = None

Normalised == sensorRec # Pending /\ sensorRec.exc = NoExc
SensorReading ==
    CASE sensorKind = "fan"  -> sensorRec.rec.rpm
      [] sensorKind = "temp" -> sensorRec.rec.celsius
      [] sensorKind = "rail" -> sensorRec.rec.volts
IntOrFloat(v) == v.t \in {"int", "float", "nan"}
RawRpm == Or(Get(sensorItem.d, "Reading"), Get(sensorItem.d, "ReadingRPM"))

---------------------------------------------------------------------------
(* Properties of fetch_power's stitching (under SpecPower) *)

PowerDone == powerResult # Pending /\ powerResult.exc = NoExc
\* the rails of context "PowerSupply" that carry the member id mid
SupplyRails(rails, mid) ==
    {j \in 1..Len(rails) : /\ rails[j].context = Str(STR_PowerSupply)
                           /\ rails[j].member_id # None
                           /\ rails[j].member_id = mid}
StitchedFrom(psu, rails, matches) ==
    IF matches = {} THEN psu.voltage = None
    ELSE \E j \in matches : psu.voltage = rails[j].volts

\* C11: in the result of fetch_power, each PSU record's voltage is the
\* reading of a rail whose context is "PowerSupply" and whose member id
\* equals the PSU's member id, and it is absent when there is no such rail.
C11_VoltageOfSupplyRailWithSameId ==
    PowerDone =>
        \A i \in 1..Len(powerResult.value.psus) :
            StitchedFrom(powerResult.value.psus[i], powerResult.value.voltages,
                         SupplyRails(powerResult.value.voltages,
                                     powerResult.value.psus[i].member_id))

---------------------------------------------------------------------------
(* Properties of the entities (under SpecEntities) *)

PlatformSetUp == firstData # NoData
\* the unique id an entity of this kind gets from the record rec
UniqueIdFor(kind, host, rec) ==
    CASE kind = "fan"         -> CimcFanSensor(host, rec, 0).unique_id
      [] kind = "temp"        -> CimcTemperatureSensor(host, rec, 0).unique_id
      [] kind = "psu_voltage" -> CimcPsuVoltageSensor(host, rec, 0).unique_id
      [] OTHER                -> CimcPsuPowerSensor(host, rec, 0).unique_id
EntityKinds == {"fan", "temp", "psu_voltage", "psu_power"}
SameUpstreamIds(r, q) == r.odata_id = q.odata_id /\ r.member_id = q.member_id

\* C12: the unique ids of the entities made for one host from one snapshot
\* are pairwise distinct, and a record whose resource id and member id are
\* those of a record of the first snapshot gets the same unique id.
C12_UniqueIdsDistinctAndStable ==
    PlatformSetUp =>
        /\ \A i, j \in 1..Len(entities) :
               i # j => entities[i].unique_id # entities[j].unique_id
        /\ \A kind \in EntityKinds :
               \A r \in Elems(Records(firstData, ListKey(kind))) :
                   \A q \in Elems(Records(data, ListKey(kind))) :
                       SameUpstreamIds(r, q) =>
                           UniqueIdFor(kind, HostName, r) = UniqueIdFor(kind, HostName, q)

---------------------------------------------------------------------------
(* Properties of normalize_name (under SpecName) *)

Named == nameOut # Pending
SingleSpaced(s) == \A i \in 1..(Len(s) - 1) : ~(s[i] = " " /\ s[i + 1] = " ")

\* C13: normalize_name gives "Fan 1 Tach 1" for "FAN1_TACH1", "PSU 1
\* Temperature" for "PSU1_TEMP", "Riser 2 Outlet Temperature" for
\* "RISER2_OUTLETTMP" and "" for an empty or absent input, and the words of
\* the name it gives are separated by exactly one space.
C13_NormalizedNames ==
    Named =>
        /\ nameRaw = Str(<<"F", "A", "N", "1", "_", "T", "A", "C", "H", "1">>) => nameOut.val = Str(<<"F", "a", "n", " ", "1", " ", "T", "a", "c", "h", " ", "1">>)
        /\ nameRaw = Str(<<"P", "S", "U", "1", "_", "T", "E", "M", "P">>) => nameOut.val = Str(<<"P", "S", "U", " ", "1", " ", "T", "e", "m", "p", "e", "r", "a", "t", "u", "r", "e">>)
        /\ nameRaw = Str(<<"R", "I", "S", "E", "R", "2", "_", "O", "U", "T", "L", "E", "T", "T", "M", "P">>)
               => nameOut.val = Str(<<"R", "i", "s", "e", "r", " ", "2", " ", "O", "u", "t", "l", "e", "t", " ", "T", "e", "m", "p", "e", "r", "a", "t", "u", "r", "e">>)
        /\ nameRaw \in {None, Str(<<>>)} => nameOut.val = Str(<<>>)
        /\ SingleSpaced(nameOut.val.s)

---------------------------------------------------------------------------
(* Properties of the link resolution (under SpecLink) *)

EntryDone == linkOut # Pending
\* the keys that make an entry carry its reading or status
ReadingKeys(kind) ==
    IF kind = "fans" THEN {"Reading", "ReadingRPM", "Status"}
    ELSE {"Reading", "ReadingRPM", "ReadingCelsius", "Status"}
CarriesReading(kind, item) == item.isDict /\ DOMAIN item.d \cap ReadingKeys(kind) # {}
BareLink(kind, item) ==
    item.isDict /\ "@odata.id" \in DOMAIN item.d /\ ~CarriesReading(kind, item)
AllAbsent(rec) == \A k \in DOMAIN rec : rec[k] = None

\* C14: a follow-up GET is issued for an array entry exactly when it is a bare
\* link (an @odata.id and no reading or status key); an entry that carries its
\* reading, ReadingCelsius included for a temperature, is normalized as it is
\* with no follow-up GET; an entry that is neither gives an all-absent record.
C14_FollowUpOnlyForBareLinks ==
    EntryDone =>
        /\ linkOut.reqs # <<>> <=> BareLink(linkKind, linkEntry)
        /\ CarriesReading(linkKind, linkEntry) =>
               /\ linkOut.reqs = <<>>
               /\ linkOut.rec = EntryRecord(linkKind, linkEntry).rec
        /\ (~CarriesReading(linkKind, linkEntry) /\ ~BareLink(linkKind, linkEntry)) =>
               linkOut.exc = NoExc /\ AllAbsent(linkOut.rec)

---------------------------------------------------------------------------
(* Properties of the fan reading (under SpecItem) *)

FanNormalised == Normalised /\ sensorKind = "fan"
IsZero(v) == v.t \in {"int", "float"} /\ v.n = 0

\* C15: a fan record's reading is taken from the entry's Reading whenever
\* that is present, 0 included, and from ReadingRPM only when Reading is
\* absent; a fan whose Reading is 0 gives a record whose reading is 0.
C15_ReadingBeforeReadingRPM ==
    FanNormalised =>
        /\ Get(sensorItem.d, "Reading") # None
               => sensorRec.rec.rpm = FanRpmOf(Get(sensorItem.d, "Reading"))
        /\ Get(sensorItem.d, "Reading") = None
               => sensorRec.rec.rpm = FanRpmOf(Get(sensorItem.d, "ReadingRPM"))
        /\ IsZero(Get(sensorItem.d, "Reading")) => IsZero(sensorRec.rec.rpm)

---------------------------------------------------------------------------
(* Properties of the device-identity step (under SpecFlow) *)

Probed == submitted /\ probeAnswer # NoData
\* what fetch_fans gives when the chassis resource answers well
WithGoodChassis(host, r) ==
    fetch_fans(host, None, [r EXCEPT !.chassis = ChassisJson])
ChassisStepFails(r) == r.chassis.exc # NoExc \/ ~r.chassis.body.isDict
DefaultDevice(dev) ==
    /\ dev.manufacturer = Str(STR_Cisco)
    /\ dev.model = Str(STR_CSeries)
    /\ dev.serial = None
FansWithDefaults(good, x, res) ==
    IF good.exc # NoExc THEN x = good.exc
    ELSE /\ x = NoExc
         /\ res.fans = good.value.fans
         /\ DefaultDevice(res.device)

\* C16: once Thermal and the fan entries have been fetched, no failure of the
\* chassis-identity step (transport error, error status, a body that is no
\* JSON object) makes fetch_fans fail: the fans come back unchanged with
\* manufacturer "Cisco", model "C-Series" and no serial; a failure at an
\* earlier step is raised and never replaced by defaults.
C16_DeviceStepNeverFails ==
    (Probed /\ ChassisStepFails(probeAnswer)) =>
        FansWithDefaults(WithGoodChassis(flowHost, probeAnswer), probeExc, probeRes)


SameSnapshot == PlatformSetUp /\ data = firstData
\* C17: in the snapshot the entities were made from, the record an entity's
\* lookup key finds is the record its unique id was built from, and its value
\* is that record's reading; two entities of one kind with distinct unique ids
\* never read the same record.
C17_LookupFindsOwnRecord ==
    SameSnapshot =>
        /\ \A i \in 1..Len(entities) :
               native_value(entities[i], data)
                   = Records(data, ListKey(entities[i].kind))[entities[i].src]
                         [ValueKey(entities[i].kind)]
        /\ \A i, j \in 1..Len(entities) :
               (/\ entities[i].kind = entities[j].kind
                /\ entities[i].unique_id # entities[j].unique_id)
                   => FoundBy(entities[i], data) # FoundBy(entities[j], data)


\* the rail shown is the rail stitched, or neither is there
SameRail(shown, stitched) ==
    IF stitched = {} THEN shown = {}
    ELSE shown # {} /\ FirstOf(shown) = LastOf(stitched)
ShowsStitchedRail(p, rails) ==
    SameRail(RailShown(p, rails), RailMatches(rails, PyStr(p.member_id)))
\* C18: for every snapshot and every PSU voltage entity, the rail whose
\* context and thresholds the attributes show is the rail fetch_power
\* stitched into that PSU's voltage: never a rail of another context or one
\* that only shares an absent resource id, and the same one of two rails
\* that share a member id.
C18_AttributesShowStitchedRail ==
    PlatformSetUp =>
        \A i \in 1..Len(entities) :
            (entities[i].kind = "psu_voltage" /\ FoundBy(entities[i], data) # 0) =>
                ShowsStitchedRail(Records(data, "psus")[FoundBy(entities[i], data)],
                                  Records(data, "voltages"))

---------------------------------------------------------------------------
(* Properties of _num on numbers (under SpecNum) *)

FiniteNumber(v) == v.t \in {"int", "float"}
SameNumber(a, b) == IsNumber(a) /\ IsNumber(b) /\ PyEq(a, b)

\* C19: _num preserves the value of an input that is already a number (no
\* truncation, no rounding), and a numeric string and the JSON number equal
\* to it are coerced to the same value.
C19_NumbersKeepTheirValue ==
    ret # Pending =>
        /\ FiniteNumber(arg) => (ret.status = "returned" /\ SameNumber(ret.val, arg))
        /\ (arg.t = "str" /\ FloatText(arg.s)) =>
               (ret.status = "returned" /\ SameNumber(ret.val, _num(FloatOfText(arg.s))))


EntitiesOf(kind) == {i \in 1..Len(entities) : entities[i].kind = kind}
SourcesOf(kind)  == {entities[i].src : i \in EntitiesOf(kind)}
\* the records of the first snapshot that get an entity of this kind
Entitled(kind) ==
    CASE kind = "fan"  -> 1..Len(Records(firstData, "fans"))
      [] kind = "temp" -> 1..Len(Records(firstData, "temperatures"))
      [] kind = "psu_voltage" ->
             {i \in 1..Len(Records(firstData, "psus")) :
                  Records(firstData, "psus")[i].voltage # None}
      [] OTHER ->
             {i \in 1..Len(Records(firstData, "psus")) :
                  Records(firstData, "psus")[i].last_power # None}
RecordMissing(e, d) ==
    \A r \in Elems(Records(d, ListKey(e.kind))) : RecordKey(r) # e.id
OnePerFirstRecord ==
    IF PlatformSetUp
    THEN \A kind \in EntityKinds :
             /\ SourcesOf(kind) = Entitled(kind)
             /\ Cardinality(EntitiesOf(kind)) = Cardinality(Entitled(kind))
    ELSE entities = <<>>
MissingReadsAbsent ==
    \A i \in 1..Len(entities) :
        RecordMissing(entities[i], data) =>
            /\ native_value(entities[i], data) = None
            /\ extra_state_attributes(entities[i], data) = NoKeys

\* C20: the entities of an entry are those made at platform setup from the
\* first snapshot (one per fan, one per temperature, per PSU a voltage entity
\* if its voltage is present and a power entity if its last power is), no
\* later poll adds or removes one, and an entity whose record is missing
\* from the current snapshot reports no value and empty attributes.
C20_EntitiesFixedAtSetup ==
    /\ [](OnePerFirstRecord /\ MissingReadsAbsent)
    /\ [][PlatformSetUp => entities' = entities]_vars
\* after a later poll, a PSU voltage entity whose PSU has left the snapshot
C20_EntityOutlivesRecord ==
    /\ PlatformSetUp
    /\ data # firstData
    /\ \E i \in 1..Len(entities) :
           /\ entities[i].kind = "psu_voltage"
           /\ RecordMissing(entities[i], data)
           /\ native_value(entities[i], data) = None
    /\ Len(entities) # Len(SensorEntities(data))

====
